---- MODULE Spec2Model ----
(***************************************************************************)
(* Model of the query-composition and session-validation layer of the      *)
(* miles-client services (src/services/api.ts, src/services/campaignApi.ts)*)
(*                                                                         *)
(* JavaScript values are represented as follows.                           *)
(*   - an object is a TLA+ record (a function on field names); an optional *)
(*     field that is not set is a name outside the record's DOMAIN, so the *)
(*     object spread {...a, ...b} is the function override Spread(a, b);   *)
(*   - a value that may be undefined/null (the user argument, one end of   *)
(*     dateRange, the stored token) is a sequence of length 0 (absent) or 1;*)
(*   - a string that is inspected character by character is a sequence of  *)
(*     one-character strings; a Date is its epoch time in milliseconds.    *)
(***************************************************************************)
EXTENDS Integers, Sequences, FiniteSets, TLC

(* ------------------------------ bounds --------------------------------- *)

\* longest selectedAgents list drawn as an input
MaxAgents == 2
\* largest zero-based pagination.page drawn as an input
MaxPage == 2

(* --------------------------- JavaScript values -------------------------- *)

\* the object {} : a record with no fields
EmptyObject == [k \in {} |-> TRUE]

\* {...a, ...b}: the fields of b replace or extend those of a
Spread(a, b) ==
  [k \in (DOMAIN a) \cup (DOMAIN b) |-> IF k \in DOMAIN b THEN b[k] ELSE a[k]]

\* an optional value: absent, or present with value v
None == << >>
Some(v) == << v >>
IsSome(o) == Len(o) > 0
Get(o) == o[1]

\* Array.prototype.includes
Includes(seq, x) == \E i \in 1..Len(seq) : seq[i] = x

\* all sequences over S of length at most n
SeqUpTo(S, n) == UNION { [1..k -> S] : k \in 0..n }

\* Number.prototype.toString for a natural number: its decimal digits
Digit(d) == CASE d = 0 -> "0" [] d = 1 -> "1" [] d = 2 -> "2" [] d = 3 -> "3"
              [] d = 4 -> "4" [] d = 5 -> "5" [] d = 6 -> "6" [] d = 7 -> "7"
              [] d = 8 -> "8" [] d = 9 -> "9"
RECURSIVE NumberToString(_)
NumberToString(n) ==
  IF n < 10 THEN << Digit(n) >> ELSE NumberToString(n \div 10) \o << Digit(n % 10) >>

\* String.prototype.trim: drop the white space at both ends
IsSpace(c) == c = " "
RECURSIVE TrimStart(_)
TrimStart(s) ==
  IF s # << >> /\ IsSpace(Head(s)) THEN TrimStart(Tail(s)) ELSE s
RECURSIVE TrimEnd(_)
TrimEnd(s) ==
  IF s # << >> /\ IsSpace(s[Len(s)]) THEN TrimEnd(SubSeq(s, 1, Len(s) - 1)) ELSE s
Trim(s) == TrimEnd(TrimStart(s))

\* Date.prototype.toISOString: YYYY-MM-DDTHH:mm:ss.sssZ as its fields. The
\* dates drawn here lie in January 1970, so the calendar part is the day count.
MsPerSecond == 1000
toISOString(ms) ==
  [ year   |-> 1970,
    month  |-> 1,
    day    |-> 1 + (ms \div (24 * 60 * 60 * MsPerSecond)),
    hour   |-> (ms \div (60 * 60 * MsPerSecond)) % 24,
    minute |-> (ms \div (60 * MsPerSecond)) % 60,
    second |-> (ms \div MsPerSecond) % 60,
    milli  |-> ms % MsPerSecond,
    zone   |-> "Z" ]

(* ------------------------- buildLeadsRequestBody ------------------------ *)

\* the outcome of a call: a returned value or a thrown error
Return(v) == [kind |-> "return", value |-> v]
Throw(e)  == [kind |-> "throw", error |-> e]

\* user.permissions?.lead?.includes(c): an absent permissions or lead is an
\* empty capability set (optional chaining yields undefined, which is falsy)
HasLeadCapability(u, c) ==
  /\ "permissions" \in DOMAIN u
  /\ "lead" \in DOMAIN u.permissions
  /\ Includes(u.permissions.lead, c)

\* the condition of lines 120-124
MayViewAll(u) ==
  \/ HasLeadCapability(u, "view_non_assigned")
  \/ HasLeadCapability(u, "view_all")
  \/ ("role" \in DOMAIN u /\ u.role = "superAdmin")

\* user.id, undefined when the field is not set
Undefined == "undefined"
UserId(u) == IF "id" \in DOMAIN u THEN u.id ELSE Undefined

\* resolveScope with the superAdmin branch tested before the selection
resolveScope_SuperAdminFirst(user, filters) ==
  IF ~IsSome(user) THEN Throw("TypeError")
  ELSE IF "role" \in DOMAIN Get(user) /\ Get(user).role = "superAdmin"
  THEN Return([ selectedAgents |-> << >>, requestOptions |-> [viewAllLeads |-> TRUE] ])
  ELSE IF "selectedAgents" \in DOMAIN filters /\ Len(filters.selectedAgents) > 0
  THEN Return([ selectedAgents |-> filters.selectedAgents,
                requestOptions |->
                  IF ~Includes(filters.selectedAgents, "non-assigned") THEN EmptyObject
                  ELSE IF MayViewAll(Get(user))
                       THEN [includeNonAssigned |-> TRUE, viewAllLeads |-> TRUE]
                       ELSE [includeNonAssigned |-> TRUE] ])
  ELSE Return([ selectedAgents |-> << UserId(Get(user)) >>,
                requestOptions |-> EmptyObject ])

\* resolveScope with the second branch testing the capabilities as well as
\* the role
resolveScope_CapabilityAsRole(user, filters) ==
  IF "selectedAgents" \in DOMAIN filters /\ Len(filters.selectedAgents) > 0
  THEN IF Includes(filters.selectedAgents, "non-assigned")
       THEN IF ~IsSome(user) THEN Throw("TypeError")
            ELSE Return([ selectedAgents |-> filters.selectedAgents,
                          requestOptions |->
                            IF MayViewAll(Get(user))
                            THEN [includeNonAssigned |-> TRUE, viewAllLeads |-> TRUE]
                            ELSE [includeNonAssigned |-> TRUE] ])
       ELSE Return([ selectedAgents |-> filters.selectedAgents,
                     requestOptions |-> EmptyObject ])
  ELSE IF ~IsSome(user) THEN Throw("TypeError")
  ELSE IF MayViewAll(Get(user))
       THEN Return([ selectedAgents |-> << >>,
                     requestOptions |-> [viewAllLeads |-> TRUE] ])
       ELSE Return([ selectedAgents |-> << UserId(Get(user)) >>,
                     requestOptions |-> EmptyObject ])

\* resolveScope that sets viewAllLeads for whoever selects non-assigned
resolveScope_NonAssignedUnchecked(user, filters) ==
  IF "selectedAgents" \in DOMAIN filters /\ Len(filters.selectedAgents) > 0
  THEN IF Includes(filters.selectedAgents, "non-assigned")
       THEN IF ~IsSome(user) THEN Throw("TypeError")
            ELSE Return([ selectedAgents |-> filters.selectedAgents,
                          requestOptions |->
                            [includeNonAssigned |-> TRUE, viewAllLeads |-> TRUE] ])
       ELSE Return([ selectedAgents |-> filters.selectedAgents,
                     requestOptions |-> EmptyObject ])
  ELSE IF ~IsSome(user) THEN Throw("TypeError")
  ELSE IF "role" \in DOMAIN Get(user) /\ Get(user).role = "superAdmin"
       THEN Return([ selectedAgents |-> << >>,
                     requestOptions |-> [viewAllLeads |-> TRUE] ])
       ELSE Return([ selectedAgents |-> << UserId(Get(user)) >>,
                     requestOptions |-> EmptyObject ])

\* lines 108-134: the selected agents and the request options. user is an
\* optional value; reading a property of an absent user throws a TypeError.
resolveScope(user, filters) ==
  IF "selectedAgents" \in DOMAIN filters /\ Len(filters.selectedAgents) > 0
  THEN IF Includes(filters.selectedAgents, "non-assigned")
       THEN IF ~IsSome(user) THEN Throw("TypeError")
            ELSE Return([ selectedAgents |-> filters.selectedAgents,
                          requestOptions |->
                            IF MayViewAll(Get(user))
                            THEN [includeNonAssigned |-> TRUE, viewAllLeads |-> TRUE]
                            ELSE [includeNonAssigned |-> TRUE] ])
       ELSE Return([ selectedAgents |-> filters.selectedAgents,
                     requestOptions |-> EmptyObject ])
  ELSE IF ~IsSome(user) THEN Throw("TypeError")
  ELSE IF "role" \in DOMAIN Get(user) /\ Get(user).role = "superAdmin"
       THEN Return([ selectedAgents |-> << >>,
                     requestOptions |-> [viewAllLeads |-> TRUE] ])
       ELSE Return([ selectedAgents |-> << UserId(Get(user)) >>,
                     requestOptions |-> EmptyObject ])

\* .filter((date) => date !== null), keeping the order
RECURSIVE FilterNotNull(_)
FilterNotNull(ends) ==
  IF ends = << >> THEN << >>
  ELSE IF IsSome(Head(ends)) THEN << Head(ends) >> \o FilterNotNull(Tail(ends))
       ELSE FilterNotNull(Tail(ends))
DateToISO(end) == toISOString(Get(end))
\* dateField that needs both ends set (&& for ||)
dateField_BothEnds(filters) ==
  IF "dateRange" \in DOMAIN filters
     /\ (IsSome(filters.dateRange[1]) /\ IsSome(filters.dateRange[2]))
  THEN LET kept == FilterNotNull(filters.dateRange)
       IN  [i \in 1..Len(kept) |-> DateToISO(kept[i])]
  ELSE << >>

\* lines 142-147: the date field
dateField(filters) ==
  IF "dateRange" \in DOMAIN filters
     /\ (IsSome(filters.dateRange[1]) \/ IsSome(filters.dateRange[2]))
  THEN LET kept == FilterNotNull(filters.dateRange)
       IN  [i \in 1..Len(kept) |-> DateToISO(kept[i])]
  ELSE << >>

\* wirePage without the shift
wirePage_ZeroBased(pagination) == pagination.page

\* line 150: zero-based page to one-based wire page
wirePage(pagination) == pagination.page + 1

\* lines 137-152: the fields written out in the returned object
requestFields(user, filters, searchText, pagination, scope) ==
  [ searchTerm       |-> Trim(searchText),
    selectedAgents   |-> scope.selectedAgents,
    selectedStatuses |-> IF "selectedStatuses" \in DOMAIN filters
                         THEN filters.selectedStatuses ELSE << >>,
    selectedSources  |-> IF "selectedSources" \in DOMAIN filters
                         THEN filters.selectedSources ELSE << >>,
    selectedTags     |-> IF "selectedTags" \in DOMAIN filters
                         THEN filters.selectedTags ELSE << >>,
    date             |-> dateField(filters),
    dateFor          |-> IF "dateFor" \in DOMAIN filters /\ filters.dateFor # ""
                         THEN filters.dateFor ELSE "LeadIntroduction",
    searchBoxFilters |-> IF "searchBoxFilters" \in DOMAIN filters
                         THEN filters.searchBoxFilters ELSE << "LeadInfo" >>,
    page             |-> wirePage(pagination),
    limit            |-> NumberToString(pagination.limit),
    userid           |-> UserId(Get(user)) ]

\* requestObject with the two spreads in the other order
requestObject_OptionsFirst(user, filters, searchText, pagination, scope, options) ==
  Spread(Spread(requestFields(user, filters, searchText, pagination, scope), options),
         scope.requestOptions)

\* lines 136-155: the returned object, the computed options and then the
\* caller's options spread over the fields
requestObject(user, filters, searchText, pagination, scope, options) ==
  Spread(Spread(requestFields(user, filters, searchText, pagination, scope),
                scope.requestOptions),
         options)

\* lines 101-156
buildLeadsRequestBody(user, filters, searchText, pagination, options) ==
  LET scope == resolveScope(user, filters)
  IN  IF scope.kind = "throw" THEN scope
      ELSE IF ~IsSome(user) THEN Throw("TypeError")   \* user.id at line 152
      ELSE Return(requestObject(user, filters, searchText, pagination,
                                scope.value, options))

(* ------------------------------ session token -------------------------- *)

\* A stored token is the list of its '.'-separated segments. A segment is
\* described by what decoding it gives: whether atob accepts it, whether
\* JSON.parse accepts the decoded text, and the parsed value (an object, with
\* or without exp, or null).
Segment(b64ok, jsonok, v) == [base64 |-> b64ok, json |-> jsonok, value |-> v]
OpaqueSegment == Segment(FALSE, FALSE, [type |-> "null"])
PayloadSegment(v) == Segment(TRUE, TRUE, v)
ObjectWithExp(e) == [type |-> "object", fields |-> [exp |-> e]]
ObjectWithoutExp == [type |-> "object", fields |-> [sub |-> "u1"]]

\* storedToken.split('.')[1]: the second segment, undefined when there is none
MiddleSegment(token) == IF Len(token) >= 2 THEN Some(token[2]) ELSE None

\* atob: the decoded text, or InvalidCharacterError (atob(undefined) decodes
\* the nine-character string "undefined", which is not valid base64)
atob(seg) ==
  IF IsSome(seg) /\ Get(seg).base64 THEN Return(Get(seg))
  ELSE Throw("InvalidCharacterError")

\* JSON.parse of a decoded text
JSONparse(text) ==
  IF text.json THEN Return(text.value) ELSE Throw("SyntaxError")

\* line 76, then tokenPayload.exp of line 78: the payload's exp (absent when
\* the payload has none), or the error thrown on the way
tokenExpiryOf(token) ==
  LET decoded == atob(MiddleSegment(token))
  IN  IF decoded.kind = "throw" THEN decoded
      ELSE LET parsed == JSONparse(decoded.value)
           IN  IF parsed.kind = "throw" THEN parsed
               ELSE IF parsed.value.type = "null" THEN Throw("TypeError")
               ELSE IF "exp" \in DOMAIN parsed.value.fields
                    THEN Return(Some(parsed.value.fields.exp))
                    ELSE Return(None)

\* line 77: Math.floor(Date.now() / 1000)
currentTimeOf(dateNow) == dateNow \div MsPerSecond

\* isExpired with >= for >
isExpired_AtExpiry(currentTime, tokenExpiry) ==
  IsSome(tokenExpiry) /\ currentTime >= Get(tokenExpiry)

\* line 80: currentTime > tokenExpiry; a comparison with undefined is false
isExpired(currentTime, tokenExpiry) ==
  IsSome(tokenExpiry) /\ currentTime > Get(tokenExpiry)

\* authHeaders whose Cookie leaves the token out
authHeaders_CookieWithoutToken(storedToken) ==
  [ accept           |-> "application/json, text/plain, */*",
    contentType      |-> "application/json",
    Cookie           |-> << "token=" >>,
    referer          |-> "BASE_URL/Leads/Marketing",
    origin           |-> "BASE_URL",
    userAgent        |-> "MilesClient-Mobile/1.0.0",
    xRequestedWith   |-> "XMLHttpRequest" ]

\* lines 50-59: the header set; the static fields are fixed strings
authHeaders(storedToken) ==
  [ accept           |-> "application/json, text/plain, */*",
    contentType      |-> "application/json",
    Cookie           |-> << "token=", storedToken >>,
    referer          |-> "BASE_URL/Leads/Marketing",
    origin           |-> "BASE_URL",
    userAgent        |-> "MilesClient-Mobile/1.0.0",
    xRequestedWith   |-> "XMLHttpRequest" ]

ToastLogin   == "toast:Please login again to access leads"
ToastExpired == "toast:Your session has expired. Please login again."
ToastInvalid == "toast:Invalid session token. Please login again."

(* --------------------------- response shaping --------------------------- *)

\* A JSON response body is an object whose fields may be missing; its data
\* field, when present, is a list of rows.

\* x || 0-style truthiness of an optional number field
TruthyNumber(obj, fld) == fld \in DOMAIN obj /\ obj[fld] # 0

\* lines 209-212
leadsResult(data) ==
  [ data       |-> IF "data" \in DOMAIN data THEN data.data ELSE << >>,
    totalLeads |-> IF TruthyNumber(data, "totalLeads") THEN data.totalLeads ELSE 0 ]

\* lines 228-232: data.data.map(...); reading map of an absent data throws
statusOptions(data) ==
  IF "data" \notin DOMAIN data THEN Throw("TypeError")
  ELSE Return([ i \in 1..Len(data.data) |->
                  [ value |-> data.data[i]._id,
                    label |-> data.data[i].Status,
                    color |-> data.data[i].color ] ])

\* lines 256-259
sourceOptions(data) ==
  IF "data" \notin DOMAIN data THEN Throw("TypeError")
  ELSE Return([ i \in 1..Len(data.data) |->
                  [ value |-> data.data[i]._id,
                    label |-> data.data[i].Source ] ])

\* tagValue without the page offset
tagValue_WithoutOffset(tag, page, limit, index) ==
  (tag \o << ":", ":" >>) \o NumberToString(index)

\* line 298: tag.Tag + '::' + (page - 1) * limit + index. + associates to the
\* left, so once the left operand is a string every + is a concatenation: the
\* offset and the index are appended one after the other.
tagValue(tag, page, limit, index) ==
  ((tag \o << ":", ":" >>) \o NumberToString((page - 1) * limit)) \o NumberToString(index)

\* tagsResult whose hasMore is true for any page with rows
tagsResult_HasMoreWhenAnyRows(data, page, limit) ==
  IF "data" \notin DOMAIN data THEN Throw("TypeError")
  ELSE LET tagOpts == [ i \in 1..Len(data.data) |->
                          [ label |-> data.data[i].Tag,
                            value |-> tagValue(data.data[i].Tag, page, limit, i - 1) ] ]
       IN  Return([ options    |-> tagOpts,
                    hasMore    |-> Len(tagOpts) > 0,
                    totalCount |-> IF TruthyNumber(data, "totalTags") THEN data.totalTags
                                   ELSE IF TruthyNumber(data, "total") THEN data.total
                                   ELSE Len(tagOpts) ])

\* tagsResult that prefers total to totalTags
tagsResult_TotalFirst(data, page, limit) ==
  IF "data" \notin DOMAIN data THEN Throw("TypeError")
  ELSE LET tagOpts == [ i \in 1..Len(data.data) |->
                          [ label |-> data.data[i].Tag,
                            value |-> tagValue(data.data[i].Tag, page, limit, i - 1) ] ]
       IN  Return([ options    |-> tagOpts,
                    hasMore    |-> Len(tagOpts) = limit,
                    totalCount |-> IF TruthyNumber(data, "total") THEN data.total
                                   ELSE IF TruthyNumber(data, "totalTags") THEN data.totalTags
                                   ELSE Len(tagOpts) ])

\* lines 296-305
tagsResult(data, page, limit) ==
  IF "data" \notin DOMAIN data THEN Throw("TypeError")
  ELSE LET tagOpts == [ i \in 1..Len(data.data) |->
                          [ label |-> data.data[i].Tag,
                            value |-> tagValue(data.data[i].Tag, page, limit, i - 1) ] ]
       IN  Return([ options    |-> tagOpts,
                    hasMore    |-> Len(tagOpts) = limit,
                    totalCount |-> IF TruthyNumber(data, "totalTags") THEN data.totalTags
                                   ELSE IF TruthyNumber(data, "total") THEN data.total
                                   ELSE Len(tagOpts) ])

\* line 308 and line 312
EmptyTags == [options |-> << >>, hasMore |-> FALSE, totalCount |-> 0]

\* lines 294-313 of fetchTagOptions once its request has settled: what it
\* returns for the response, the catch of lines 310-313 included
tagsOutcome(response, page, limit) ==
  IF response.kind = "failure" THEN EmptyTags
  ELSE IF ~response.ok THEN EmptyTags
  ELSE IF ~IsSome(response.json) THEN EmptyTags
  ELSE LET shaped == tagsResult(Get(response.json), page, limit)
       IN  IF shaped.kind = "throw" THEN EmptyTags ELSE shaped.value

\* a property that may be missing from a row, as an optional value
Prop(row, fld) == IF fld \in DOMAIN row THEN Some(row[fld]) ELSE None

\* transformAgentsDataToTreeSelect that lists the subordinates last to first
transformAgentsDataToTreeSelect_Reversed(data) ==
  IF ~IsSome(data) THEN << >>
  ELSE
  [ i \in 1..Len(Get(data)) |->
      LET userData == Get(data)[i]
      IN  [ value    |-> userData._id,
            title    |-> userData.username,
            label    |-> userData.username,
            children |->
              IF "subordinates" \in DOMAIN userData
              THEN Some([ j \in 1..Len(userData.subordinates) |->
                     LET subordinate ==
                           userData.subordinates[Len(userData.subordinates) + 1 - j]
                     IN  [ value         |-> subordinate._id,
                           title         |-> subordinate.username,
                           label         |-> subordinate.username,
                           email         |-> Prop(subordinate, "email"),
                           personalEmail |-> Prop(subordinate, "personalemail"),
                           isVerified    |-> Prop(subordinate, "isVerified"),
                           children      |-> None ] ])
              ELSE None ] ]

\* transformAgentsDataToTreeSelect that stops below the subordinates
transformAgentsDataToTreeSelect_TwoLevels(data) ==
  IF ~IsSome(data) THEN << >>
  ELSE
  [ i \in 1..Len(Get(data)) |->
      LET userData == Get(data)[i]
      IN  [ value    |-> userData._id,
            title    |-> userData.username,
            label    |-> userData.username,
            children |->
              IF "subordinates" \in DOMAIN userData
              THEN Some([ j \in 1..Len(userData.subordinates) |->
                     LET subordinate == userData.subordinates[j]
                     IN  [ value         |-> subordinate._id,
                           title         |-> subordinate.username,
                           label         |-> subordinate.username,
                           email         |-> Prop(subordinate, "email"),
                           personalEmail |-> Prop(subordinate, "personalemail"),
                           isVerified    |-> Prop(subordinate, "isVerified"),
                           children      |-> None ] ])
              ELSE None ] ]

\* lines 319-340. Every node carries a children field: the list of child
\* nodes when the row has a subordinates list, the value undefined (None)
\* when it has none.
RECURSIVE transformAgentsDataToTreeSelect(_)
transformAgentsDataToTreeSelect(data) ==
  IF ~IsSome(data) THEN << >>
  ELSE
  [ i \in 1..Len(Get(data)) |->
      LET userData == Get(data)[i]
      IN  [ value    |-> userData._id,
            title    |-> userData.username,
            label    |-> userData.username,
            children |->
              IF "subordinates" \in DOMAIN userData
              THEN Some([ j \in 1..Len(userData.subordinates) |->
                     LET subordinate == userData.subordinates[j]
                     IN  [ value         |-> subordinate._id,
                           title         |-> subordinate.username,
                           label         |-> subordinate.username,
                           email         |-> Prop(subordinate, "email"),
                           personalEmail |-> Prop(subordinate, "personalemail"),
                           isVerified    |-> Prop(subordinate, "isVerified"),
                           children      |->
                             IF "subordinates" \in DOMAIN subordinate
                             THEN transformAgentsDataToTreeSelect(
                                    Some(<< subordinate >>))[1].children
                             ELSE None ] ])
              ELSE None ] ]

NonAssignedNode ==
  [value |-> "non-assigned", title |-> "Non-Assigned Leads", label |-> "Non-Assigned Leads"]

\* hasViewAllPermission without view_non_assigned
hasViewAllPermission_WithoutNonAssigned(u) ==
  \/ HasLeadCapability(u, "view_all")
  \/ ("role" \in DOMAIN u /\ u.role = "superAdmin")

\* lines 363-366
hasViewAllPermission(u) ==
  \/ HasLeadCapability(u, "view_all")
  \/ HasLeadCapability(u, "view_non_assigned")
  \/ ("role" \in DOMAIN u /\ u.role = "superAdmin")

\* lines 359-379
agentsResult(user, data) ==
  LET treeData == transformAgentsDataToTreeSelect(Prop(data, "data"))
  IN  IF hasViewAllPermission(user) THEN << NonAssignedNode >> \o treeData ELSE treeData

\* campaignApi.ts lines 76-80
campaignLeadsResult(data) ==
  [ message    |-> Prop(data, "message"),
    data       |-> IF "data" \in DOMAIN data THEN data.data ELSE << >>,
    totalLeads |-> IF TruthyNumber(data, "totalLeads") THEN data.totalLeads ELSE 0 ]

\* campaignApi.ts lines 152-155
campaignsResult(result) ==
  [ data       |-> IF "data" \in DOMAIN result THEN result.data ELSE << >>,
    pagination |-> Prop(result, "pagination") ]

(* ------------------------------- state ---------------------------------- *)

VARIABLES
  store,         \* SecureStore 'userToken': an optional token
  now,           \* Date.now(), in milliseconds
  calls,         \* per caller, the operation in progress and its locals
  buildArgs,     \* the arguments of a buildLeadsRequestBody call
  buildResult,   \* its outcome, NotCalled before the call
  tagBackend,    \* the tag list and total fields behind /api/tags/get
  tagLimit,      \* the limit of the fetchTagOptions calls
  tagPages,      \* what fetchTagOptions returned for pages 1, 2, ... so far
  treeArgs,      \* the argument of a transformAgentsDataToTreeSelect call
  treeResult     \* its outcome, NotCalled before the call

tagVars == << tagBackend, tagLimit, tagPages >>
treeVars == << treeArgs, treeResult >>
vars == << store, now, calls, buildArgs, buildResult, tagVars, treeVars >>

NotCalled == [kind |-> "none"]

\* no fetchTagOptions paging and no transformAgentsDataToTreeSelect call
NoTagPaging == tagBackend = EmptyObject /\ tagLimit = 1 /\ tagPages = << >>
NoTreeCall == treeArgs = None /\ treeResult = NotCalled

(* ------------------- inputs of buildLeadsRequestBody -------------------- *)

LeadCapabilities ==
  { << >>, << "edit" >>, << "view_all" >>, << "edit", "view_non_assigned" >> }

UserObjects ==
  { Spread(Spread(idPart, [role |-> r]), permPart) :
      idPart \in { EmptyObject, [id |-> "u1"] },
      r \in { "superAdmin", "agent" },
      permPart \in { EmptyObject }
                   \cup { [permissions |-> [lead |-> c]] : c \in LeadCapabilities } }

Users == { None } \cup { Some(u) : u \in UserObjects }

AgentValues == { "non-assigned", "a1" }

\* two instants: the epoch, and 2 days 1 h 1 min 1 s 1 ms after it
DateInstants == { 0, 176461001 }
DateEnds == { None } \cup { Some(d) : d \in DateInstants }

FilterObjects ==
  { Spread(agentPart, datePart) :
      agentPart \in { EmptyObject }
                    \cup { [selectedAgents |-> a] : a \in SeqUpTo(AgentValues, MaxAgents) },
      datePart \in { EmptyObject }
                   \cup { [dateRange |-> << a, b >>] : a \in DateEnds, b \in DateEnds } }

SearchTexts == { << "a" >>, << " ", "a", " ", "b", " " >> }

Paginations == { [page |-> p, limit |-> 50] : p \in 0..MaxPage }

LeadRequestOptions ==
  { Spread(incPart, viewPart) :
      incPart \in { EmptyObject } \cup { [includeNonAssigned |-> b] : b \in BOOLEAN },
      viewPart \in { EmptyObject } \cup { [viewAllLeads |-> b] : b \in BOOLEAN } }

BuildInputs ==
  [ user : Users, filters : FilterObjects, searchText : SearchTexts,
    pagination : Paginations, options : LeadRequestOptions ]

(* --------------- specification of buildLeadsRequestBody ----------------- *)

InitBuild ==
  /\ buildArgs \in BuildInputs
  /\ buildResult = NotCalled
  /\ store = None
  /\ now = 0
  /\ calls = EmptyObject
  /\ NoTagPaging
  /\ NoTreeCall

CallBuildLeadsRequestBody ==
  /\ buildResult = NotCalled
  /\ buildResult' = buildLeadsRequestBody(buildArgs.user, buildArgs.filters,
                                          buildArgs.searchText, buildArgs.pagination,
                                          buildArgs.options)
  /\ UNCHANGED << buildArgs, store, now, calls, tagVars, treeVars >>

NextBuild == CallBuildLeadsRequestBody

SpecBuild == InitBuild /\ [][NextBuild]_vars

(* ----------------------- inputs of the operations ----------------------- *)

\* largest exp (in seconds) of a stored token
MaxExp == 1
\* the clock runs from 0 to MaxSeconds seconds
MaxSeconds == 2

Tokens ==
  { << OpaqueSegment >>,
    << OpaqueSegment, OpaqueSegment, OpaqueSegment >>,
    << OpaqueSegment, Segment(TRUE, FALSE, [type |-> "null"]), OpaqueSegment >>,
    << OpaqueSegment, PayloadSegment([type |-> "null"]), OpaqueSegment >>,
    << OpaqueSegment, PayloadSegment(ObjectWithoutExp), OpaqueSegment >> }
  \cup { << OpaqueSegment, PayloadSegment(ObjectWithExp(e)), OpaqueSegment >> : e \in 0..MaxExp }

CallerUsers ==
  { None,
    Some([role |-> "agent"]),
    Some([id |-> "u1", role |-> "agent"]),
    Some([id |-> "u1", role |-> "superAdmin"]) }

\* the users of fetchAgents: those above, and users with lead capabilities
AgentUsers ==
  CallerUsers
  \cup { Some([id |-> "u1", role |-> "agent", permissions |-> [lead |-> caps]]) :
           caps \in { << "view_all" >>, << "view_non_assigned" >>, << "edit" >> } }

LeadsArgs ==
  [ user : CallerUsers,
    filters : { EmptyObject, [selectedAgents |-> << "non-assigned" >>] },
    searchText : { << " ", "a" >> },
    pagination : { [page |-> 0, limit |-> 50] },
    options : { EmptyObject } ]

StatusRows == << [_id |-> "s1", Status |-> "New", color |-> "red"] >>
SourceRows == << [_id |-> "o1", Source |-> "Web"] >>
TagRows    == << [Tag |-> << "A" >>], [Tag |-> << "A" >>] >>
StaffRows  ==
  << [ _id |-> "m1", username |-> "root",
       subordinates |-> << [ _id |-> "m2", username |-> "mid",
                             subordinates |-> << [_id |-> "m3", username |-> "leaf"] >> ] >> ] >>

\* the JSON bodies an endpoint may answer with
JsonBodies(op) ==
  CASE op = "fetchLeads" ->
         { EmptyObject, [data |-> << "lead1" >>, totalLeads |-> 1] }
    [] op = "fetchStatusOptions" -> { EmptyObject, [data |-> StatusRows] }
    [] op = "fetchSourceOptions" -> { EmptyObject, [data |-> SourceRows] }
    [] op = "fetchTagOptions" ->
         { EmptyObject, [data |-> TagRows], [data |-> TagRows, totalTags |-> 0, total |-> 5] }
    [] op = "fetchAgents" -> { EmptyObject, [data |-> StaffRows] }
    [] op = "fetchCampaignLeads" ->
         { EmptyObject, [message |-> "ok", data |-> << "lead1" >>, totalLeads |-> 1] }
    [] op = "fetchCampaignsWithCounts" ->
         { EmptyObject, [data |-> << "camp1" >>] }

\* what the transport delivers: a response (ok or not, with a JSON body or a
\* body that is not JSON), or a transport failure
Responses(op) ==
  { [kind |-> "failure"] }
  \cup { [kind |-> "response", ok |-> FALSE, status |-> st, json |-> None] : st \in { 401, 500 } }
  \cup { [kind |-> "response", ok |-> TRUE, status |-> 200, json |-> None] }
  \cup { [kind |-> "response", ok |-> TRUE, status |-> 200, json |-> Some(b)] : b \in JsonBodies(op) }

(* --------------------------- the operations ----------------------------- *)

Callers == DOMAIN calls

IdleCall ==
  [ op          |-> "none",
    pc          |-> "idle",
    args        |-> EmptyObject,
    validateToken |-> None,    \* storedToken of validateAuthToken (line 68)
    headersToken  |-> None,    \* storedToken of createAuthHeaders (line 47)
    dateNow     |-> None,      \* the Date.now() read at line 77, while in scope
    tokenValid  |-> None,      \* what validateAuthToken returned
    request     |-> None,      \* the network request issued
    pending     |-> FALSE,     \* the request is in flight
    timer       |-> "none",    \* the 30 s timer: none, armed, fired
    response    |-> None,      \* what the transport delivered
    log         |-> << >>,     \* the calls and effects so far, in order
    result      |-> NotCalled ]

\* calls with caller p's record changed in the given fields
Update(p, fields) == [calls EXCEPT ![p] = Spread(calls[p], fields)]
Logged(p, events) == calls[p].log \o events
Begin(p, op, args, pc, events) ==
  /\ calls[p].pc = "idle"
  /\ calls' = [calls EXCEPT ![p] =
                 Spread(IdleCall, [op |-> op, args |-> args, pc |-> pc, log |-> events])]
  /\ UNCHANGED << store, now, buildArgs, buildResult, tagVars, treeVars >>
End(p, events, outcome) ==
  Update(p, [pc |-> "done", log |-> Logged(p, events), result |-> outcome])

\* UserNotAvailable without the test of user.id
UserNotAvailable_IdUnchecked(user) == ~IsSome(user)

\* !user || !user.id
UserNotAvailable(user) ==
  ~IsSome(user) \/ "id" \notin DOMAIN Get(user) \/ Get(user).id = ""

\* BestEffort without fetchTagOptions: its failures reach the caller
BestEffort_WithoutTags == { "fetchStatusOptions", "fetchSourceOptions", "fetchAgents" }

\* BestEffort with fetchLeads: its failures become an empty result
BestEffort_WithLeads ==
  { "fetchStatusOptions", "fetchSourceOptions", "fetchTagOptions", "fetchAgents", "fetchLeads" }

BestEffort == { "fetchStatusOptions", "fetchSourceOptions", "fetchTagOptions", "fetchAgents" }

\* the result of a best-effort fetch that failed
EmptyResult(op) == IF op = "fetchTagOptions" THEN EmptyTags ELSE << >>

CallValidateAuthToken(p) ==
  Begin(p, "validateAuthToken", EmptyObject, "V_get", << "validateAuthToken" >>)

CallCreateAuthHeaders(p) ==
  Begin(p, "createAuthHeaders", EmptyObject, "H_get", << "createAuthHeaders" >>)

\* a direct call of the exported buildLeadsRequestBody
CallBuildLeadsRequestBodyBy(p) ==
  \E a \in LeadsArgs :
    /\ calls[p].pc = "idle"
    /\ calls' = [calls EXCEPT ![p] =
         Spread(IdleCall,
           [ op |-> "buildLeadsRequestBody", args |-> a, pc |-> "done",
             log |-> << "buildLeadsRequestBody" >>,
             result |-> buildLeadsRequestBody(a.user, a.filters, a.searchText,
                                              a.pagination, a.options) ])]
    /\ UNCHANGED << store, now, buildArgs, buildResult, tagVars, treeVars >>

\* lines 161-172, up to the call of validateAuthToken
CallFetchLeads(p) ==
  \E a \in LeadsArgs :
    /\ calls[p].pc = "idle"
    /\ calls' = [calls EXCEPT ![p] =
         IF UserNotAvailable(a.user)
         THEN Spread(IdleCall, [ op |-> "fetchLeads", args |-> a, pc |-> "done",
                                 result |-> Throw("User not available") ])
         ELSE Spread(IdleCall, [ op |-> "fetchLeads", args |-> a, pc |-> "V_get",
                                 log |-> << "validateAuthToken" >> ])]
    /\ UNCHANGED << store, now, buildArgs, buildResult, tagVars, treeVars >>

CallFetchStatusOptions(p) ==
  Begin(p, "fetchStatusOptions", EmptyObject, "H_get", << "createAuthHeaders" >>)

CallFetchSourceOptions(p) ==
  Begin(p, "fetchSourceOptions", EmptyObject, "H_get", << "createAuthHeaders" >>)

CallFetchTagOptions(p) ==
  \E page \in 1..2, searchTerm \in { "", "x" } :
    Begin(p, "fetchTagOptions", [page |-> page, limit |-> 2, searchTerm |-> searchTerm],
          "H_get", << "createAuthHeaders" >>)

\* lines 345-349
CallFetchAgents(p) ==
  \E user \in AgentUsers :
    /\ calls[p].pc = "idle"
    /\ calls' = [calls EXCEPT ![p] =
         IF UserNotAvailable(user)
         THEN Spread(IdleCall, [ op |-> "fetchAgents", args |-> [user |-> user],
                                 pc |-> "done", result |-> Return(<< >>) ])
         ELSE Spread(IdleCall, [ op |-> "fetchAgents", args |-> [user |-> user],
                                 pc |-> "H_get", log |-> << "createAuthHeaders" >> ])]
    /\ UNCHANGED << store, now, buildArgs, buildResult, tagVars, treeVars >>

\* campaignApi.ts lines 36-43
CallFetchCampaignLeads(p) ==
  \E name \in { "", "spring" } :
    /\ calls[p].pc = "idle"
    /\ calls' = [calls EXCEPT ![p] =
         IF name = ""
         THEN Spread(IdleCall, [ op |-> "fetchCampaignLeads",
                                 args |-> [campaignName |-> name], pc |-> "done",
                                 result |-> Throw("Campaign name is required") ])
         ELSE Spread(IdleCall, [ op |-> "fetchCampaignLeads",
                                 args |-> [campaignName |-> name], pc |-> "H_get",
                                 log |-> << "createAuthHeaders" >> ])]
    /\ UNCHANGED << store, now, buildArgs, buildResult, tagVars, treeVars >>

\* campaignApi.ts lines 86-90
CallFetchCampaignsWithCounts(p) ==
  Begin(p, "fetchCampaignsWithCounts", [page |-> 1, limit |-> 100], "V_get",
        << "validateAuthToken" >>)

(* validateAuthToken, lines 66-96 *)

\* line 68: the store answers getItemAsync
ValidateGetItem(p) ==
  /\ calls[p].pc = "V_get"
  /\ calls' = Update(p, [ pc |-> "V_check", validateToken |-> store,
                           log |-> Logged(p, << "getItem" >>) ])
  /\ UNCHANGED << store, now, buildArgs, buildResult, tagVars, treeVars >>

\* checkToken without the guard of lines 69-74: splitting an absent token
\* throws, and the catch deletes
checkToken_AbsentAsInvalid(storedToken, dateNow) ==
  IF ~IsSome(storedToken) \/ tokenExpiryOf(Get(storedToken)).kind = "throw"
  THEN [ valid |-> FALSE, deletes |-> TRUE, clock |-> FALSE, toasts |-> << ToastInvalid >> ]
  ELSE IF isExpired(currentTimeOf(dateNow), tokenExpiryOf(Get(storedToken)).value)
  THEN [ valid |-> FALSE, deletes |-> TRUE, clock |-> TRUE, toasts |-> << ToastExpired >> ]
  ELSE [ valid |-> TRUE, deletes |-> FALSE, clock |-> TRUE, toasts |-> << >> ]

\* checkToken whose catch leaves the token in the store
checkToken_CatchKeepsToken(storedToken, dateNow) ==
  IF ~IsSome(storedToken)
  THEN [ valid |-> FALSE, deletes |-> FALSE, clock |-> FALSE, toasts |-> << ToastLogin >> ]
  ELSE IF tokenExpiryOf(Get(storedToken)).kind = "throw"
  THEN [ valid |-> FALSE, deletes |-> FALSE, clock |-> FALSE, toasts |-> << ToastInvalid >> ]
  ELSE IF isExpired(currentTimeOf(dateNow), tokenExpiryOf(Get(storedToken)).value)
  THEN [ valid |-> FALSE, deletes |-> TRUE, clock |-> TRUE, toasts |-> << ToastExpired >> ]
  ELSE [ valid |-> TRUE, deletes |-> FALSE, clock |-> TRUE, toasts |-> << >> ]

\* checkToken that deletes the token whatever it decided
checkToken_AlwaysDeletes(storedToken, dateNow) ==
  IF ~IsSome(storedToken)
  THEN [ valid |-> FALSE, deletes |-> FALSE, clock |-> FALSE, toasts |-> << ToastLogin >> ]
  ELSE IF tokenExpiryOf(Get(storedToken)).kind = "throw"
  THEN [ valid |-> FALSE, deletes |-> TRUE, clock |-> FALSE, toasts |-> << ToastInvalid >> ]
  ELSE IF isExpired(currentTimeOf(dateNow), tokenExpiryOf(Get(storedToken)).value)
  THEN [ valid |-> FALSE, deletes |-> TRUE, clock |-> TRUE, toasts |-> << ToastExpired >> ]
  ELSE [ valid |-> TRUE, deletes |-> TRUE, clock |-> TRUE, toasts |-> << >> ]

\* checkToken that leaves an expired token in the store
checkToken_ExpiredKeepsToken(storedToken, dateNow) ==
  IF ~IsSome(storedToken)
  THEN [ valid |-> FALSE, deletes |-> FALSE, clock |-> FALSE, toasts |-> << ToastLogin >> ]
  ELSE IF tokenExpiryOf(Get(storedToken)).kind = "throw"
  THEN [ valid |-> FALSE, deletes |-> TRUE, clock |-> FALSE, toasts |-> << ToastInvalid >> ]
  ELSE IF isExpired(currentTimeOf(dateNow), tokenExpiryOf(Get(storedToken)).value)
  THEN [ valid |-> FALSE, deletes |-> FALSE, clock |-> TRUE, toasts |-> << ToastExpired >> ]
  ELSE [ valid |-> TRUE, deletes |-> FALSE, clock |-> TRUE, toasts |-> << >> ]

\* lines 69-88 and the catch of lines 89-92, up to the next await: what
\* validateAuthToken decides for the token it read, at clock reading dateNow.
\* deletes tells whether deleteItemAsync follows, clock whether line 77 ran.
checkToken(storedToken, dateNow) ==
  IF ~IsSome(storedToken)
  THEN [ valid |-> FALSE, deletes |-> FALSE, clock |-> FALSE, toasts |-> << ToastLogin >> ]
  ELSE LET expiry == tokenExpiryOf(Get(storedToken))
       IN  IF expiry.kind = "throw"
           THEN [ valid |-> FALSE, deletes |-> TRUE, clock |-> FALSE,
                  toasts |-> << ToastInvalid >> ]
           ELSE IF isExpired(currentTimeOf(dateNow), expiry.value)
           THEN [ valid |-> FALSE, deletes |-> TRUE, clock |-> TRUE,
                  toasts |-> << ToastExpired >> ]
           ELSE [ valid |-> TRUE, deletes |-> FALSE, clock |-> TRUE, toasts |-> << >> ]

ValidateCheck(p) ==
  /\ calls[p].pc = "V_check"
  /\ LET d == checkToken(calls[p].validateToken, now)
     IN  calls' = Update(p, [ pc |-> IF d.deletes THEN "V_delete" ELSE "V_done",
                              dateNow |-> IF d.clock THEN Some(now) ELSE None,
                              tokenValid |-> IF d.deletes THEN None ELSE Some(d.valid),
                              log |-> Logged(p, d.toasts) ])
  /\ UNCHANGED << store, now, buildArgs, buildResult, tagVars, treeVars >>

\* ValidateDeleteItem that leaves the store as it is
ValidateDeleteItem_KeepsStore(p) ==
  /\ calls[p].pc = "V_delete"
  /\ calls' = Update(p, [ pc |-> "V_done", tokenValid |-> Some(FALSE),
                           log |-> Logged(p, << "deleteItem" >>) ])
  /\ UNCHANGED << store, now, buildArgs, buildResult, tagVars, treeVars >>

\* lines 84-85 and 93-94: the store carries out deleteItemAsync
ValidateDeleteItem(p) ==
  /\ calls[p].pc = "V_delete"
  /\ store' = None
  /\ calls' = Update(p, [ pc |-> "V_done", tokenValid |-> Some(FALSE),
                           log |-> Logged(p, << "deleteItem" >>) ])
  /\ UNCHANGED << now, buildArgs, buildResult, tagVars, treeVars >>

\* fetchLeadsResume that does not test the value
fetchLeadsResume_Unchecked(valid) == [pc |-> "H_get", error |-> ""]

\* lines 172-176: fetchLeads goes on only when the token is valid
fetchLeadsResume(valid) ==
  IF valid THEN [pc |-> "H_get", error |-> ""]
  ELSE [pc |-> "done", error |-> "Authentication failed"]

\* campaignApi.ts lines 90-97: the value is logged and not tested
fetchCampaignsResume(valid) == [pc |-> "H_get", error |-> ""]

\* the caller resumes with the value validateAuthToken returned
ValidateReturn(p) ==
  /\ calls[p].pc = "V_done"
  /\ LET valid == Get(calls[p].tokenValid)
         ev == << IF valid THEN "validateAuthToken:true" ELSE "validateAuthToken:false" >>
         resume == IF calls[p].op = "fetchLeads" THEN fetchLeadsResume(valid)
                   ELSE fetchCampaignsResume(valid)
     IN  calls' =
           IF calls[p].op = "validateAuthToken" THEN End(p, ev, Return(valid))
           ELSE IF resume.pc = "done" THEN End(p, ev, Throw(resume.error))
           ELSE Update(p, [ pc |-> resume.pc, dateNow |-> None,
                            log |-> Logged(p, ev \o << "createAuthHeaders" >>) ])
  /\ UNCHANGED << store, now, buildArgs, buildResult, tagVars, treeVars >>

(* createAuthHeaders, lines 46-60, and the request of each operation *)

\* line 47: the store answers getItemAsync
HeadersGetItem(p) ==
  /\ calls[p].pc = "H_get"
  /\ calls' = Update(p, [ pc |-> "H_check", headersToken |-> store,
                           log |-> Logged(p, << "getItem" >>) ])
  /\ UNCHANGED << store, now, buildArgs, buildResult, tagVars, treeVars >>

\* the request an operation sends with the given headers
RequestOf(c, headers) ==
  CASE c.op = "fetchLeads" ->
         [ method |-> "POST", path |-> "/api/Lead/get", headers |-> headers,
           body |-> Some(buildLeadsRequestBody(c.args.user, c.args.filters,
                           c.args.searchText, c.args.pagination, c.args.options).value) ]
    [] c.op = "fetchStatusOptions" ->
         [ method |-> "GET", path |-> "/api/Status/get", headers |-> headers, body |-> None ]
    [] c.op = "fetchSourceOptions" ->
         [ method |-> "GET", path |-> "/api/Source/get", headers |-> headers, body |-> None ]
    [] c.op = "fetchTagOptions" ->
         [ method |-> "GET", path |-> "/api/tags/get", headers |-> headers, body |-> None,
           query |-> Spread([ page |-> NumberToString(c.args.page),
                              limit |-> NumberToString(c.args.limit) ],
                            IF c.args.searchTerm # "" THEN [search |-> c.args.searchTerm]
                            ELSE EmptyObject) ]
    [] c.op = "fetchAgents" ->
         [ method |-> "GET", path |-> "/api/staff/get?preserveHierarchy=true",
           headers |-> headers, body |-> None ]
    [] c.op = "fetchCampaignLeads" ->
         [ method |-> "POST", path |-> "/api/Lead/campaign", headers |-> headers,
           body |-> Some([ campaignName |-> c.args.campaignName, page |-> 1, limit |-> 50 ]) ]
    [] c.op = "fetchCampaignsWithCounts" ->
         [ method |-> "GET", path |-> "/api/campaigns/with-counts", headers |-> headers,
           body |-> None,
           query |-> [ page |-> c.args.page, limit |-> c.args.limit,
                       sortBy |-> "leadCount", sortOrder |-> "desc" ] ]

\* line 48, lines 50-59, and the caller up to its fetch(...)
HeadersCheck(p) ==
  /\ calls[p].pc = "H_check"
  /\ LET c == calls[p]
     IN  calls' =
           IF ~IsSome(c.headersToken)
           THEN IF c.op \in BestEffort
                THEN End(p, << "throw:No authentication token available", "catch" >>,
                         Return(EmptyResult(c.op)))
                ELSE End(p, << "throw:No authentication token available" >>,
                         Throw("No authentication token available"))
           ELSE IF c.op = "createAuthHeaders"
                THEN End(p, << >>, Return(authHeaders(Get(c.headersToken))))
                ELSE Update(p, [ pc |-> "F_wait",
                                 request |-> Some(RequestOf(c, authHeaders(Get(c.headersToken)))),
                                 pending |-> TRUE,
                                 timer |-> IF c.op = "fetchCampaignsWithCounts"
                                           THEN "armed" ELSE "none",
                                 log |-> Logged(p, << "fetch" >>) ])
  /\ UNCHANGED << store, now, buildArgs, buildResult, tagVars, treeVars >>

\* Respond after which a request that failed in transport is sent once more
Respond_ResendsOnFailure(p) ==
  /\ calls[p].pc = "F_wait"
  /\ \E r \in Responses(calls[p].op) :
       calls' =
         IF r.kind = "failure" /\ calls[p].log[Len(calls[p].log)] = "fetch"
                               /\ calls[p].log[Len(calls[p].log) - 1] # "fetch"
         THEN Update(p, [ log |-> Logged(p, << "fetch" >>) ])
         ELSE Update(p, [ pc |-> "F_done", response |-> Some(r), pending |-> FALSE ])
  /\ UNCHANGED << store, now, buildArgs, buildResult, tagVars, treeVars >>

\* the transport settles the request of a caller that is waiting for it
Respond(p) ==
  /\ calls[p].pc = "F_wait"
  /\ \E r \in Responses(calls[p].op) :
       calls' = Update(p, [ pc |-> "F_done", response |-> Some(r), pending |-> FALSE ])
  /\ UNCHANGED << store, now, buildArgs, buildResult, tagVars, treeVars >>

\* the transport settles a request nobody waits for any more
RespondLate(p) ==
  /\ calls[p].pc = "done"
  /\ calls[p].pending
  /\ calls' = Update(p, [ pending |-> FALSE ])
  /\ UNCHANGED << store, now, buildArgs, buildResult, tagVars, treeVars >>

\* TimerFires that fails the operation whenever the timer fires
TimerFires_AfterResponseToo(p) ==
  /\ calls[p].timer = "armed"
  /\ calls' = Update(p, [ pc |-> "done", timer |-> "fired",
                           log |-> Logged(p, << "throw:Request timeout after 30s", "catch" >>),
                           result |-> Throw("Request timeout after 30s") ])
  /\ UNCHANGED << store, now, buildArgs, buildResult, tagVars, treeVars >>

\* campaignApi.ts lines 109-111 and 156-162: the 30 s timer fires; the race
\* is lost only if the response has not arrived
TimerFires(p) ==
  /\ calls[p].timer = "armed"
  /\ calls' =
       IF calls[p].pc = "F_wait"
       THEN Update(p, [ pc |-> "done", timer |-> "fired",
                        log |-> Logged(p, << "throw:Request timeout after 30s", "catch" >>),
                        result |-> Throw("Request timeout after 30s") ])
       ELSE Update(p, [ timer |-> "fired" ])
  /\ UNCHANGED << store, now, buildArgs, buildResult, tagVars, treeVars >>

\* the value a successful response is turned into, or the error thrown on the way
Shaped(c, data) ==
  CASE c.op = "fetchLeads" -> Return(leadsResult(data))
    [] c.op = "fetchStatusOptions" -> statusOptions(data)
    [] c.op = "fetchSourceOptions" -> sourceOptions(data)
    [] c.op = "fetchTagOptions" -> tagsResult(data, c.args.page, c.args.limit)
    [] c.op = "fetchAgents" -> Return(agentsResult(Get(c.args.user), data))
    [] c.op = "fetchCampaignLeads" -> Return(campaignLeadsResult(data))
    [] c.op = "fetchCampaignsWithCounts" -> Return(campaignsResult(data))

\* the error of a response that is not ok: lines 196-200, campaignApi.ts
\* lines 57-73 and 121-137
HttpError(status) ==
  IF status = 401 THEN "Failed to fetch: HTTP 401" ELSE "Failed to fetch: HTTP 500"

\* the rest of the operation once the transport has settled
Complete(p) ==
  /\ calls[p].pc = "F_done"
  /\ LET c == calls[p]
         r == Get(c.response)
     IN  calls' =
           IF r.kind = "failure"
           THEN IF c.op \in BestEffort
                THEN End(p, << "throw:Network request failed", "catch" >>,
                         Return(EmptyResult(c.op)))
                ELSE End(p, << "throw:Network request failed" >>,
                         Throw("Network request failed"))
           ELSE IF ~r.ok
           THEN IF c.op \in BestEffort
                THEN End(p, << >>, Return(EmptyResult(c.op)))
                ELSE End(p, << "response.text" >>, Throw(HttpError(r.status)))
           ELSE IF ~IsSome(r.json)
           THEN IF c.op \in BestEffort
                THEN End(p, << "response.json", "throw:SyntaxError", "catch" >>,
                         Return(EmptyResult(c.op)))
                ELSE End(p, << "response.json", "throw:SyntaxError" >>, Throw("SyntaxError"))
           ELSE LET shaped == Shaped(c, Get(r.json))
                IN  IF shaped.kind = "throw"
                    THEN End(p, << "response.json", "throw:TypeError", "catch" >>,
                             Return(EmptyResult(c.op)))
                    ELSE End(p, << "response.json" >>, shaped)
  /\ UNCHANGED << store, now, buildArgs, buildResult, tagVars, treeVars >>

\* the caller has taken the outcome; it may start another operation
Finish(p) ==
  /\ calls[p].pc = "done"
  /\ ~calls[p].pending
  /\ calls[p].timer # "armed"
  /\ calls' = [calls EXCEPT ![p] = IdleCall]
  /\ UNCHANGED << store, now, buildArgs, buildResult, tagVars, treeVars >>

(* the environment *)

HalfSecond == MsPerSecond \div 2

\* time passes
Tick ==
  /\ now + HalfSecond <= MaxSeconds * MsPerSecond
  /\ now' = now + HalfSecond
  /\ UNCHANGED << store, calls, buildArgs, buildResult, tagVars, treeVars >>

\* a login outside this library stores a token
Login ==
  /\ \E t \in Tokens : store' = Some(t)
  /\ UNCHANGED << now, calls, buildArgs, buildResult, tagVars, treeVars >>

Init ==
  /\ store = None
  /\ now = 0
  /\ calls = [p \in { "c1" } |-> IdleCall]
  /\ buildArgs = EmptyObject
  /\ buildResult = NotCalled
  /\ NoTagPaging
  /\ NoTreeCall

Next ==
  \/ Tick
  \/ Login
  \/ \E p \in Callers : CallValidateAuthToken(p)
  \/ \E p \in Callers : CallCreateAuthHeaders(p)
  \/ \E p \in Callers : CallBuildLeadsRequestBodyBy(p)
  \/ \E p \in Callers : CallFetchLeads(p)
  \/ \E p \in Callers : CallFetchStatusOptions(p)
  \/ \E p \in Callers : CallFetchSourceOptions(p)
  \/ \E p \in Callers : CallFetchTagOptions(p)
  \/ \E p \in Callers : CallFetchAgents(p)
  \/ \E p \in Callers : CallFetchCampaignLeads(p)
  \/ \E p \in Callers : CallFetchCampaignsWithCounts(p)
  \/ \E p \in Callers : ValidateGetItem(p)
  \/ \E p \in Callers : ValidateCheck(p)
  \/ \E p \in Callers : ValidateDeleteItem(p)
  \/ \E p \in Callers : ValidateReturn(p)
  \/ \E p \in Callers : HeadersGetItem(p)
  \/ \E p \in Callers : HeadersCheck(p)
  \/ \E p \in Callers : Respond(p)
  \/ \E p \in Callers : RespondLate(p)
  \/ \E p \in Callers : TimerFires(p)
  \/ \E p \in Callers : Complete(p)
  \/ \E p \in Callers : Finish(p)

Spec == Init /\ [][Next]_vars

(* ------- specification of two callers on one store, no login ----------- *)

\* two operations in flight at once, on a store nothing else writes
InitShared ==
  /\ store \in { None } \cup { Some(t) : t \in Tokens }
  /\ now = 0
  /\ calls = [p \in { "c1", "c2" } |-> IdleCall]
  /\ buildArgs = EmptyObject
  /\ buildResult = NotCalled
  /\ NoTagPaging
  /\ NoTreeCall

\* fetchLeads for an agent with an id and no filters
SharedFetchLeads(p) ==
  /\ CallFetchLeads(p)
  /\ calls'[p].args.user = Some([id |-> "u1", role |-> "agent"])
  /\ calls'[p].args.filters = EmptyObject

\* the transport fails, or delivers an ok response with a data list
SharedRespond(p) ==
  /\ Respond(p)
  /\ LET r == Get(calls'[p].response)
     IN  \/ r.kind = "failure"
         \/ (r.kind = "response" /\ r.ok /\ IsSome(r.json) /\ "data" \in DOMAIN Get(r.json))

NextShared ==
  \/ Tick
  \/ \E p \in Callers : CallValidateAuthToken(p)
  \/ \E p \in Callers : CallCreateAuthHeaders(p)
  \/ \E p \in Callers : SharedFetchLeads(p)
  \/ \E p \in Callers : CallFetchStatusOptions(p)
  \/ \E p \in Callers : CallFetchCampaignsWithCounts(p)
  \/ \E p \in Callers : ValidateGetItem(p)
  \/ \E p \in Callers : ValidateCheck(p)
  \/ \E p \in Callers : ValidateDeleteItem(p)
  \/ \E p \in Callers : ValidateReturn(p)
  \/ \E p \in Callers : HeadersGetItem(p)
  \/ \E p \in Callers : HeadersCheck(p)
  \/ \E p \in Callers : SharedRespond(p)
  \/ \E p \in Callers : RespondLate(p)
  \/ \E p \in Callers : TimerFires(p)
  \/ \E p \in Callers : Complete(p)

SpecShared == InitShared /\ [][NextShared]_vars

(* ------------- specification of fetchTagOptions over pages -------------- *)

\* the most tags the backend holds
MaxTags == 5
\* the largest limit of a fetchTagOptions call
MaxTagLimit == 3

Min(a, b) == IF a <= b THEN a ELSE b

\* tag labels repeat: the same label throughout, or A, B, A, C in turn
TagLabelCycles ==
  { << << "A" >> >>, << << "A" >>, << "B" >>, << "A" >>, << "C" >> >> }

\* the rows of the backend's tag list
TagLists ==
  { [ i \in 1..n |-> [Tag |-> cyc[((i - 1) % Len(cyc)) + 1]] ] :
      n \in 0..MaxTags, cyc \in TagLabelCycles }

\* the total fields of a tags response: each may be missing, zero or not
TagTotals ==
  { EmptyObject }
  \cup { [totalTags |-> t] : t \in { 0, 7 } }
  \cup { [total |-> t] : t \in { 0, 9 } }
  \cup { [totalTags |-> t, total |-> u] : t \in { 0, 7 }, u \in { 0, 9 } }

TagBackends == [ tags : TagLists, totals : TagTotals ]

\* the body the endpoint answers ?page&limit with: the rows of that page of
\* its list, and its total fields
tagsPageBody(backend, page, limit) ==
  Spread([ data |-> SubSeq(backend.tags, (page - 1) * limit + 1,
                          Min(page * limit, Len(backend.tags))) ],
         backend.totals)

\* what the transport may deliver for the page
TagResponses(backend, page, limit) ==
  { [kind |-> "failure"],
    [kind |-> "response", ok |-> FALSE, status |-> 500, json |-> None],
    [kind |-> "response", ok |-> TRUE, status |-> 200, json |-> None],
    [kind |-> "response", ok |-> TRUE, status |-> 200, json |-> Some(EmptyObject)],
    [kind |-> "response", ok |-> TRUE, status |-> 200,
     json |-> Some(tagsPageBody(backend, page, limit))] }

\* the response carries the page of the backend's list
Served(response) ==
  response.kind = "response" /\ response.ok /\ IsSome(response.json)
    /\ "data" \in DOMAIN Get(response.json)

InitTags ==
  /\ tagBackend \in TagBackends
  /\ tagLimit \in 1..MaxTagLimit
  /\ tagPages = << >>
  /\ store = None
  /\ now = 0
  /\ calls = EmptyObject
  /\ buildArgs = EmptyObject
  /\ buildResult = NotCalled
  /\ NoTreeCall

\* fetchTagOptions(page, limit) for the page after the last one fetched
FetchTagPage ==
  /\ Len(tagPages) <= MaxTags
  /\ LET page == Len(tagPages) + 1
     IN  \E r \in TagResponses(tagBackend, page, tagLimit) :
           tagPages' = Append(tagPages, [ served |-> Served(r),
                                          result |-> tagsOutcome(r, page, tagLimit) ])
  /\ UNCHANGED << store, now, calls, buildArgs, buildResult, tagBackend, tagLimit, treeVars >>

NextTags == FetchTagPage

SpecTags == InitTags /\ [][NextTags]_vars

(* --------- specification of transformAgentsDataToTreeSelect ------------- *)

\* the most rows, at all depths together, of a staff response
MaxStaff == 4

\* a staff row without its subordinates
StaffRowBases ==
  { [_id |-> "x", username |-> "X"],
    [_id |-> "y", username |-> "Y", email |-> "y@m", personalemail |-> "y@p",
     isVerified |-> TRUE] }

RECURSIVE StaffLists(_)
RECURSIVE StaffRowsWith(_)

\* the staff rows with at most n rows below them: with no subordinates
\* field, or with a list (which may be empty) of subordinates
StaffRowsWith(n) ==
  StaffRowBases
  \cup { Spread(b, [subordinates |-> subs]) : b \in StaffRowBases, subs \in StaffLists(n) }

\* the lists of staff rows with at most n rows, at all depths together
StaffLists(n) ==
  { << >> }
  \cup UNION { { << row >> \o rest : row \in StaffRowsWith(k - 1), rest \in StaffLists(n - k) } :
                k \in 1..n }

\* data.data of a staff response: a list of rows, or nothing
TreeInputs == { None } \cup { Some(rows) : rows \in StaffLists(MaxStaff) }

InitTree ==
  /\ treeArgs \in TreeInputs
  /\ treeResult = NotCalled
  /\ store = None
  /\ now = 0
  /\ calls = EmptyObject
  /\ buildArgs = EmptyObject
  /\ buildResult = NotCalled
  /\ NoTagPaging

CallTransformAgentsDataToTreeSelect ==
  /\ treeResult = NotCalled
  /\ treeResult' = Return(transformAgentsDataToTreeSelect(treeArgs))
  /\ UNCHANGED << store, now, calls, buildArgs, buildResult, tagVars, treeArgs >>

NextTree == CallTransformAgentsDataToTreeSelect

SpecTree == InitTree /\ [][NextTree]_vars

(* ------------------------------ properties ------------------------------ *)

\* number of occurrences of event e in a log
CountIn(log, e) == Cardinality({ i \in 1..Len(log) : log[i] = e })

\* some occurrence of a precedes some occurrence of b
Precedes(log, a, b) ==
  \E i \in 1..Len(log), j \in 1..Len(log) : i < j /\ log[i] = a /\ log[j] = b

\* field f of object obj is set to true
IsTrue(obj, f) == f \in DOMAIN obj /\ obj[f] = TRUE

\* the user, read off the argument without the model's helpers
HoldsCapability(u, c) ==
  /\ "permissions" \in DOMAIN u
  /\ \E i \in DOMAIN u.permissions.lead : u.permissions.lead[i] = c
IsSuperAdmin(u) == u.role = "superAdmin"
Privileged(u) ==
  HoldsCapability(u, "view_non_assigned") \/ HoldsCapability(u, "view_all") \/ IsSuperAdmin(u)
IdOf(u) == IF "id" \in DOMAIN u THEN u.id ELSE "undefined"

BuildReturned == buildResult.kind = "return"
BuildBody == buildResult.value
BuildUser == buildArgs.user[1]
BuildSelected ==
  IF "selectedAgents" \in DOMAIN buildArgs.filters
  THEN buildArgs.filters.selectedAgents ELSE << >>
BuildSelectsNonAssigned ==
  \E i \in 1..Len(BuildSelected) : BuildSelected[i] = "non-assigned"
BuildNoExtraOptions == DOMAIN buildArgs.options = {}

C2_NoSelection ==
  (BuildReturned /\ Len(BuildSelected) = 0 /\ BuildNoExtraOptions) =>
    IF IsSuperAdmin(BuildUser)
    THEN /\ BuildBody.selectedAgents = << >>
         /\ IsTrue(BuildBody, "viewAllLeads")
    ELSE /\ BuildBody.selectedAgents = << IdOf(BuildUser) >>
         /\ "includeNonAssigned" \notin DOMAIN BuildBody
         /\ "viewAllLeads" \notin DOMAIN BuildBody

C2_Witness ==
  /\ BuildReturned
  /\ "selectedAgents" \notin DOMAIN buildArgs.filters
  /\ BuildNoExtraOptions
  /\ ~IsSuperAdmin(BuildUser)
  /\ HoldsCapability(BuildUser, "view_all")
  /\ BuildBody.selectedAgents = << "u1" >>
  /\ "viewAllLeads" \notin DOMAIN BuildBody

\* C6: the request's page is pagination.page + 1, whatever the other inputs.
C6_PageOneBased ==
  BuildReturned => BuildBody.page = buildArgs.pagination.page + 1

C6_Witness ==
  /\ BuildReturned
  /\ buildArgs.pagination.page = MaxPage
  /\ BuildBody.page = MaxPage + 1

\* the ISO strings of the non-null ends of a date range, in order
NonNullEndsAsISO(range) ==
  (IF range[1] # << >> THEN << toISOString(range[1][1]) >> ELSE << >>)
  \o (IF range[2] # << >> THEN << toISOString(range[2][1]) >> ELSE << >>)

\* C7: date is the empty list when both ends of dateRange are null, and
\* otherwise the list of the non-null ends as ISO strings, in their order.
C7_DateField ==
  (BuildReturned /\ "dateRange" \in DOMAIN buildArgs.filters) =>
    LET range == buildArgs.filters.dateRange
    IN  /\ (range[1] = << >> /\ range[2] = << >>) => BuildBody.date = << >>
        /\ BuildBody.date = NonNullEndsAsISO(range)

C7_Witness ==
  /\ BuildReturned
  /\ "dateRange" \in DOMAIN buildArgs.filters
  /\ buildArgs.filters.dateRange = << << >>, << 176461001 >> >>
  /\ Len(BuildBody.date) = 1
  /\ BuildBody.date[1].day = 3
  /\ BuildBody.date[1].milli = 1

\* the flag scope resolution computes to true (it computes no other value)
ComputedTrue(f) ==
  IF f = "includeNonAssigned" THEN BuildSelectsNonAssigned
  ELSE \/ BuildSelectsNonAssigned /\ Privileged(BuildUser)
       \/ Len(BuildSelected) = 0 /\ IsSuperAdmin(BuildUser)

\* C8: a field present in extraOptions carries the caller's value, false over
\* a computed true included; a field absent from extraOptions keeps the
\* computed value.
C8_ExtraOptionsOverride ==
  BuildReturned =>
    \A f \in { "includeNonAssigned", "viewAllLeads" } :
      IF f \in DOMAIN buildArgs.options
      THEN f \in DOMAIN BuildBody /\ BuildBody[f] = buildArgs.options[f]
      ELSE IsTrue(BuildBody, f) <=> ComputedTrue(f)

C8_Witness ==
  /\ BuildReturned
  /\ DOMAIN buildArgs.options = { "viewAllLeads" }
  /\ buildArgs.options.viewAllLeads = FALSE
  /\ ComputedTrue("viewAllLeads")
  /\ BuildBody.viewAllLeads = FALSE
  /\ ComputedTrue("includeNonAssigned")
  /\ IsTrue(BuildBody, "includeNonAssigned")

\* the payload's exp, for a token whose middle segment decodes to an object
\* that has one
HasExp(token) ==
  /\ Len(token) >= 2
  /\ token[2].base64
  /\ token[2].json
  /\ token[2].value.type = "object"
  /\ "exp" \in DOMAIN token[2].value.fields
ExpOf(token) == token[2].value.fields.exp

Toasts(log) == CountIn(log, ToastLogin) + CountIn(log, ToastExpired) + CountIn(log, ToastInvalid)

\* C3: on a stored, decodable token, validateAuthToken returns false, deletes
\* the token and shows the expiry notice exactly when the clock floored to
\* seconds is strictly greater than exp; otherwise (equality included) it
\* returns true.
C3_ExpiryComparison ==
  \A p \in Callers :
    LET c == calls[p]
    IN  (/\ c.tokenValid # << >>
         /\ c.dateNow # << >>
         /\ c.validateToken # << >>
         /\ HasExp(c.validateToken[1])) =>
          LET expired == (c.dateNow[1] \div 1000) > ExpOf(c.validateToken[1])
          IN  /\ c.tokenValid[1] = ~expired
              /\ expired => /\ CountIn(c.log, "deleteItem") = 1
                            /\ CountIn(c.log, ToastExpired) = 1
                            /\ Toasts(c.log) = 1
              /\ ~expired => /\ CountIn(c.log, "deleteItem") = 0
                             /\ Toasts(c.log) = 0
              /\ (c.op = "validateAuthToken" /\ c.pc = "done") =>
                   c.result = Return(~expired)

C3_Witness ==
  \E p \in Callers :
    LET c == calls[p]
    IN  /\ c.op = "validateAuthToken"
        /\ c.pc = "done"
        /\ c.validateToken # << >>
        /\ HasExp(c.validateToken[1])
        /\ c.dateNow # << >>
        /\ c.dateNow[1] \div 1000 = ExpOf(c.validateToken[1]) + 1
        /\ c.result = Return(FALSE)
        /\ CountIn(c.log, "deleteItem") = 1
        /\ store = << >>

\* C4 (as claimed): no operation has a network request out unless a
\* validateAuthToken run inside that operation has returned true.
C4_RequestOnlyAfterValidation ==
  \A p \in Callers :
    calls[p].request # << >> => calls[p].tokenValid = << TRUE >>

\* a user that passes the test of fetchLeads: present, with an id
HasIdentity(user) == user # << >> /\ "id" \in DOMAIN user[1] /\ user[1].id # ""

\* C5: a fetchLeads call with a user calls validateAuthToken exactly once,
\* and the call has returned (true) before the POST to /api/Lead/get is
\* issued; when it returns false, fetchLeads fails with the authentication
\* error and issues no request.
C5_LeadsValidatedOnce ==
  \A p \in Callers :
    LET c == calls[p]
    IN  (c.op = "fetchLeads" /\ HasIdentity(c.args.user)) =>
          /\ CountIn(c.log, "validateAuthToken") = 1
          /\ CountIn(c.log, "validateAuthToken:true")
               + CountIn(c.log, "validateAuthToken:false") <= 1
          /\ c.pc = "done" =>
               CountIn(c.log, "validateAuthToken:true")
                 + CountIn(c.log, "validateAuthToken:false") = 1
          /\ c.request # << >> =>
               /\ c.request[1].path = "/api/Lead/get"
               /\ c.request[1].method = "POST"
               /\ CountIn(c.log, "fetch") = 1
               /\ Precedes(c.log, "validateAuthToken:true", "fetch")
          /\ c.tokenValid = << FALSE >> =>
               /\ c.pc \in { "V_done", "done" }
               /\ c.request = << >>
               /\ CountIn(c.log, "fetch") = 0
               /\ c.pc = "done" =>
                    /\ c.result.kind = "throw"
                    /\ c.result.error = "Authentication failed"

C5_Witness ==
  \E p \in Callers :
    LET c == calls[p]
    IN  /\ c.op = "fetchLeads"
        /\ c.pc = "F_wait"
        /\ c.request # << >>
        /\ c.log = << "validateAuthToken", "getItem", "validateAuthToken:true",
                      "createAuthHeaders", "getItem", "fetch" >>

\* C9 (as claimed): composing a leads request, by buildLeadsRequestBody or
\* by fetchLeads, with an absent user or an absent user.id fails and
\* produces no request body.
C9_NoBodyWithoutIdentity ==
  \A p \in Callers :
    LET c == calls[p]
    IN  (/\ c.op \in { "buildLeadsRequestBody", "fetchLeads" }
         /\ c.pc = "done"
         /\ ~HasIdentity(c.args.user)) =>
          c.result.kind = "throw"

\* C9 (amended): fetchLeads with an absent user or an absent user.id fails
\* with "User not available" before anything else happens: no store read, no
\* validation, no scope resolution, no request. buildLeadsRequestBody makes
\* no such test: an absent user makes it throw a TypeError, and a user
\* without id gets a body whose userid is undefined.
C9_FetchLeadsRejectsFirst ==
  \A p \in Callers :
    LET c == calls[p]
    IN  /\ (c.op = "fetchLeads" /\ ~HasIdentity(c.args.user)) =>
             /\ c.pc = "done"
             /\ c.result.kind = "throw"
             /\ c.result.error = "User not available"
             /\ c.log = << >>
             /\ c.request = << >>
             /\ c.validateToken = << >>
             /\ c.headersToken = << >>
        /\ (c.op = "buildLeadsRequestBody" /\ ~HasIdentity(c.args.user)) =>
             IF c.args.user = << >>
             THEN c.result.kind = "throw" /\ c.result.error = "TypeError"
             ELSE c.result.kind = "return" /\ c.result.value.userid = "undefined"

C9_Witness ==
  \E p \in Callers :
    LET c == calls[p]
    IN  /\ c.op = "fetchLeads"
        /\ c.args.user # << >>
        /\ "id" \notin DOMAIN c.args.user[1]
        /\ c.pc = "done"
        /\ c.result.kind = "throw"
        /\ c.result.error = "User not available"
        /\ store # << >>

\* C10: with no stored token validateAuthToken returns false without
\* throwing, shows the not-authenticated notice and deletes nothing.
C10_AbsentToken ==
  \A p \in Callers :
    LET c == calls[p]
    IN  (/\ c.op \in { "validateAuthToken", "fetchLeads", "fetchCampaignsWithCounts" }
         /\ CountIn(c.log, "getItem") > 0
         /\ c.validateToken = << >>
         /\ c.pc # "V_check") =>
          /\ c.tokenValid = << FALSE >>
          /\ CountIn(c.log, ToastLogin) = 1
          /\ Toasts(c.log) = 1
          /\ CountIn(c.log, "deleteItem") = 0
          /\ (c.op = "validateAuthToken" /\ c.pc = "done") => c.result = Return(FALSE)

C10_Witness ==
  \E p \in Callers :
    LET c == calls[p]
    IN  /\ c.op = "validateAuthToken"
        /\ c.pc = "done"
        /\ c.validateToken = << >>
        /\ c.result = Return(FALSE)
        /\ c.log = << "validateAuthToken", "getItem", ToastLogin, "validateAuthToken:false" >>

\* the middle segment of the token is missing, is not base64, or does not
\* decode to JSON
Undecodable(token) ==
  \/ Len(token) < 2
  \/ ~token[2].base64
  \/ ~token[2].json

\* line 76 or line 78 throws on the token
DecodeThrows(token) ==
  Undecodable(token) \/ token[2].value.type = "null"

Validators == { "validateAuthToken", "fetchLeads", "fetchCampaignsWithCounts" }

\* C11: on a stored token whose middle segment is missing or cannot be
\* decoded as base64 JSON, validateAuthToken returns false, deletes the
\* stored token, shows the invalid-session notice, and does not let the
\* decode error out.
C11_MalformedToken ==
  \A p \in Callers :
    LET c == calls[p]
    IN  (/\ c.op \in Validators
         /\ c.validateToken # << >>
         /\ Undecodable(c.validateToken[1])
         /\ c.pc # "V_check") =>
          /\ CountIn(c.log, ToastInvalid) = 1
          /\ Toasts(c.log) = 1
          /\ c.dateNow = << >>
          /\ IF c.pc = "V_delete"
             THEN c.tokenValid = << >> /\ CountIn(c.log, "deleteItem") = 0
             ELSE c.tokenValid = << FALSE >> /\ CountIn(c.log, "deleteItem") = 1
          /\ (c.op = "validateAuthToken" /\ c.pc = "done") => c.result = Return(FALSE)

C11_Witness ==
  \E p \in Callers :
    LET c == calls[p]
    IN  /\ c.op = "validateAuthToken"
        /\ c.pc = "done"
        /\ c.validateToken # << >>
        /\ Len(c.validateToken[1]) = 1
        /\ c.result = Return(FALSE)
        /\ c.log = << "validateAuthToken", "getItem", ToastInvalid, "deleteItem",
                      "validateAuthToken:false" >>
        /\ store = << >>

\* the steps of validateAuthToken other than its deleteItemAsync
ValidateStepKeepsStore ==
  \A p \in Callers :
    (calls[p].pc \in { "V_get", "V_check", "V_done" } /\ calls'[p] # calls[p]) =>
      store' = store

\* C12: a validateAuthToken that returns true has deleted nothing, shown no
\* notice and issued no request, and none of its steps changes the store;
\* the one storage effect of the function is the deletion of a stored token
\* that is expired or that fails to decode.
C12_TrueIsReadOnly ==
  /\ [](\A p \in Callers :
          LET c == calls[p]
          IN  /\ (c.op \in Validators /\ c.tokenValid = << TRUE >>) =>
                   /\ CountIn(c.log, "deleteItem") = 0
                   /\ Toasts(c.log) = 0
                   /\ c.validateToken # << >>
                   /\ c.pc = "V_done" => (c.request = << >> /\ CountIn(c.log, "fetch") = 0)
                   /\ (c.op = "validateAuthToken" /\ c.pc = "done") =>
                        /\ c.result = Return(TRUE)
                        /\ c.request = << >>
                        /\ c.log = << "validateAuthToken", "getItem", "validateAuthToken:true" >>
              /\ (c.op \in Validators /\ CountIn(c.log, "deleteItem") > 0) =>
                   /\ CountIn(c.log, "deleteItem") = 1
                   /\ c.tokenValid = << FALSE >>
                   /\ c.validateToken # << >>
                   /\ (c.pc = "V_done" \/ c.op = "validateAuthToken") =>
                        \/ DecodeThrows(c.validateToken[1])
                        \/ /\ HasExp(c.validateToken[1])
                           /\ c.dateNow # << >>
                           /\ c.dateNow[1] \div 1000 > ExpOf(c.validateToken[1]))
  /\ [][ValidateStepKeepsStore]_vars

C12_Witness ==
  \E p \in Callers :
    LET c == calls[p]
    IN  /\ c.op = "validateAuthToken"
        /\ c.pc = "done"
        /\ c.result = Return(TRUE)
        /\ c.validateToken # << >>
        /\ store = c.validateToken
        /\ Toasts(c.log) = 0
        /\ CountIn(c.log, "deleteItem") = 0

\* the steps of createAuthHeaders
HeadersStepKeepsStore ==
  \A p \in Callers :
    (calls[p].pc \in { "H_get", "H_check" } /\ calls'[p] # calls[p]) => store' = store

\* C13: createAuthHeaders fails exactly when the store holds no token when
\* it reads it; with any stored token, valid or not, it returns the fixed
\* header set whose Cookie is "token=" followed by that token, and none of
\* its steps changes the store.
C13_HeadersFromStoredToken ==
  /\ [](\A p \in Callers :
          LET c == calls[p]
          IN  (c.op = "createAuthHeaders" /\ c.pc = "done") =>
                /\ (c.result.kind = "throw") <=> (c.headersToken = << >>)
                /\ c.result.kind = "throw" =>
                     c.result.error = "No authentication token available"
                /\ c.result.kind = "return" =>
                     /\ c.result.value.Cookie = << "token=", c.headersToken[1] >>
                     /\ c.result.value.accept = "application/json, text/plain, */*"
                     /\ c.result.value.contentType = "application/json"
                     /\ c.result.value.referer = "BASE_URL/Leads/Marketing"
                     /\ c.result.value.origin = "BASE_URL"
                     /\ c.result.value.userAgent = "MilesClient-Mobile/1.0.0"
                     /\ c.result.value.xRequestedWith = "XMLHttpRequest"
                /\ CountIn(c.log, "deleteItem") = 0
                /\ Toasts(c.log) = 0
                /\ c.request = << >>)
  /\ [][HeadersStepKeepsStore]_vars

C13_Witness ==
  \E p \in Callers :
    LET c == calls[p]
    IN  /\ c.op = "createAuthHeaders"
        /\ c.pc = "done"
        /\ c.headersToken # << >>
        /\ Undecodable(c.headersToken[1])
        /\ c.result.kind = "return"
        /\ c.result.value.Cookie = << "token=", c.headersToken[1] >>
        /\ store = c.headersToken

BestEffortOps == { "fetchStatusOptions", "fetchSourceOptions", "fetchTagOptions", "fetchAgents" }
CriticalOps == { "fetchLeads", "fetchCampaignLeads", "fetchCampaignsWithCounts" }

\* the empty result of a best-effort fetch
IsEmptyResult(c) ==
  /\ c.result.kind = "return"
  /\ IF c.op = "fetchTagOptions"
     THEN /\ c.result.value.options = << >>
          /\ c.result.value.hasMore = FALSE
          /\ c.result.value.totalCount = 0
     ELSE c.result.value = << >>

\* the operation read the store for its headers and found no token
NoTokenOutcome(c) == CountIn(c.log, "fetch") = 0 /\ c.headersToken = << >>

\* the transport failed, or the response was not ok
FailedResponse(c) ==
  /\ c.response # << >>
  /\ (c.response[1].kind = "failure" \/ ~c.response[1].ok)

\* an ok response whose body is not JSON, or is JSON without a data list
BodyWithoutData(c) ==
  /\ c.response # << >>
  /\ c.response[1].kind = "response"
  /\ c.response[1].ok
  /\ (c.response[1].json = << >> \/ "data" \notin DOMAIN c.response[1].json[1])

\* C14 (as claimed): a best-effort fetch never throws, and with no stored
\* token, a transport failure, a response that is not ok, or a body without
\* a data list it returns the empty result: [] for statuses, sources and
\* agents, {options: [], hasMore: false, totalCount: 0} for tags.
C14_EmptyOnEveryFailure ==
  \A p \in Callers :
    LET c == calls[p]
    IN  (c.op \in BestEffortOps /\ c.pc = "done") =>
          /\ c.result.kind = "return"
          /\ (NoTokenOutcome(c) \/ FailedResponse(c) \/ BodyWithoutData(c)) => IsEmptyResult(c)

\* C14 (amended): a best-effort fetch never throws. With no stored token, a
\* transport failure, a response that is not ok, or a body that is not JSON
\* it returns the empty result. With an ok JSON body that has no data list,
\* statuses, sources and tags return the empty result, and fetchAgents
\* returns the tree of no rows: [] for a user without the view-all
\* privilege, the single non-assigned node for a user who has it.
C14_BestEffortNeverThrows ==
  \A p \in Callers :
    LET c == calls[p]
    IN  (c.op \in BestEffortOps /\ c.pc = "done") =>
          /\ c.result.kind = "return"
          /\ (NoTokenOutcome(c) \/ FailedResponse(c)) => IsEmptyResult(c)
          /\ BodyWithoutData(c) =>
               IF /\ c.op = "fetchAgents"
                  /\ c.response[1].json # << >>
                  /\ Privileged(c.args.user[1])
               THEN c.result.value =
                      << [ value |-> "non-assigned", title |-> "Non-Assigned Leads",
                           label |-> "Non-Assigned Leads" ] >>
               ELSE IsEmptyResult(c)

C14_Witness ==
  \E p \in Callers :
    LET c == calls[p]
    IN  /\ c.op = "fetchAgents"
        /\ c.pc = "done"
        /\ BodyWithoutData(c)
        /\ c.response[1].json # << >>
        /\ Privileged(c.args.user[1])
        /\ c.result.kind = "return"
        /\ Len(c.result.value) = 1
        /\ c.result.value[1].value = "non-assigned"

\* C15: fetchLeads, fetchCampaignLeads and fetchCampaignsWithCounts never
\* turn a failure into a result: on a transport failure and on a response
\* that is not ok they throw, and in the second case they have read the
\* response body text before throwing.
C15_CriticalFetchesThrow ==
  \A p \in Callers :
    LET c == calls[p]
    IN  (c.op \in CriticalOps /\ c.pc = "done" /\ FailedResponse(c)) =>
          /\ c.result.kind = "throw"
          /\ c.response[1].kind = "failure" =>
               /\ c.result.error = "Network request failed"
               /\ CountIn(c.log, "response.text") = 0
          /\ c.response[1].kind = "response" =>
               /\ c.result.error \in { "Failed to fetch: HTTP 401", "Failed to fetch: HTTP 500" }
               /\ CountIn(c.log, "response.text") = 1
               /\ Precedes(c.log, "fetch", "response.text")
               /\ c.log[Len(c.log)] = "response.text"

C15_Witness ==
  \E p \in Callers :
    LET c == calls[p]
    IN  /\ c.op = "fetchCampaignsWithCounts"
        /\ c.pc = "done"
        /\ c.response # << >>
        /\ c.response[1].kind = "response"
        /\ c.response[1].status = 500
        /\ c.result = Throw("Failed to fetch: HTTP 500")
        /\ CountIn(c.log, "response.text") = 1

\* the pages fetched so far
FetchedPages == 1..Len(tagPages)

\* the number of tags the backend holds
TagCount == Len(tagBackend.tags)

\* the number of rows of the backend's list that fall on the page
RowsOn(page) ==
  IF TagCount <= (page - 1) * tagLimit THEN 0
  ELSE IF TagCount >= page * tagLimit THEN tagLimit
  ELSE TagCount - (page - 1) * tagLimit

\* the row of the backend's list at index (from 0) of the page
RowAt(page, index) == tagBackend.tags[(page - 1) * tagLimit + index + 1]

OptionsOf(page) == tagPages[page].result.options

\* C16 (as claimed): the option built from the row at index of page has the
\* row's Tag as label, and as value the Tag, then "::", then the decimal
\* rendering of the one number (page - 1) * limit + index.
C16_ValueIsTagAndOffsetSum ==
  \A page \in FetchedPages :
    tagPages[page].served =>
      /\ Len(OptionsOf(page)) = RowsOn(page)
      /\ \A i \in 1..Len(OptionsOf(page)) :
           /\ OptionsOf(page)[i].label = RowAt(page, i - 1).Tag
           /\ OptionsOf(page)[i].value =
                (RowAt(page, i - 1).Tag \o << ":", ":" >>)
                  \o NumberToString((page - 1) * tagLimit + (i - 1))

\* C17: with one limit, the option values of distinct pages, and of distinct
\* rows of a page, are pairwise distinct, whatever labels repeat.
C17_ValuesDistinct ==
  \A p1 \in FetchedPages, p2 \in FetchedPages :
    (tagPages[p1].served /\ tagPages[p2].served) =>
      \A i1 \in 1..Len(OptionsOf(p1)), i2 \in 1..Len(OptionsOf(p2)) :
        (OptionsOf(p1)[i1].value = OptionsOf(p2)[i2].value) => (p1 = p2 /\ i1 = i2)

C17_Witness ==
  /\ tagLimit = 2
  /\ Len(tagPages) >= 2
  /\ tagPages[1].served
  /\ tagPages[2].served
  /\ Len(OptionsOf(1)) = 2
  /\ Len(OptionsOf(2)) = 2
  /\ OptionsOf(1)[1].label = << "A" >>
  /\ OptionsOf(1)[2].label = << "B" >>
  /\ OptionsOf(2)[1].label = << "A" >>
  /\ OptionsOf(2)[2].label = << "C" >>
  /\ Cardinality({ OptionsOf(1)[1].value, OptionsOf(1)[2].value,
                   OptionsOf(2)[1].value, OptionsOf(2)[2].value }) = 4

\* pages 1..k were all served, and each but the last said hasMore: the
\* fetches of a caller that goes on while hasMore
FetchedWhileHasMore(k) ==
  /\ \A j \in 1..k : tagPages[j].served
  /\ \A j \in 1..(k - 1) : tagPages[j].result.hasMore

\* C18: hasMore is true exactly when the page was served with as many rows
\* as the limit, and false on any failure; so a caller fetching pages 1, 2,
\* 3, ... with one limit L from a backend holding N tags, going on while
\* hasMore, has after k fetches k <= N div L + 1, and is told to stop by
\* fetch N div L + 1 and by no earlier one.
C18_HasMoreAndFetchCount ==
  /\ \A page \in FetchedPages :
       /\ tagPages[page].served =>
            /\ Len(OptionsOf(page)) = RowsOn(page)
            /\ tagPages[page].result.hasMore = (RowsOn(page) = tagLimit)
       /\ ~tagPages[page].served =>
            /\ tagPages[page].result.hasMore = FALSE
            /\ OptionsOf(page) = << >>
  /\ \A k \in FetchedPages :
       FetchedWhileHasMore(k) =>
         /\ k <= (TagCount \div tagLimit) + 1
         /\ (~tagPages[k].result.hasMore) <=> (k = (TagCount \div tagLimit) + 1)

C18_Witness ==
  /\ TagCount = 4
  /\ tagLimit = 2
  /\ Len(tagPages) = 3
  /\ FetchedWhileHasMore(3)
  /\ tagPages[1].result.hasMore
  /\ tagPages[2].result.hasMore
  /\ ~tagPages[3].result.hasMore
  /\ OptionsOf(3) = << >>

\* C19 (as claimed): totalCount is totalTags whenever the body has it,
\* whatever its value; otherwise total whenever the body has it; and the
\* number of rows only when it has neither.
C19_TotalWheneverPresent ==
  \A page \in FetchedPages :
    tagPages[page].served =>
      tagPages[page].result.totalCount =
        IF "totalTags" \in DOMAIN tagBackend.totals THEN tagBackend.totals.totalTags
        ELSE IF "total" \in DOMAIN tagBackend.totals THEN tagBackend.totals.total
        ELSE RowsOn(page)

\* the field is in the body with a value other than 0
PresentNonZero(fld) == fld \in DOMAIN tagBackend.totals /\ tagBackend.totals[fld] # 0

\* C19 (amended): totalCount is totalTags when the body has it with a value
\* other than 0; otherwise total when the body has it with a value other
\* than 0; otherwise the number of rows of the page.
C19_FirstNonZeroTotal ==
  \A page \in FetchedPages :
    tagPages[page].served =>
      tagPages[page].result.totalCount =
        IF PresentNonZero("totalTags") THEN tagBackend.totals.totalTags
        ELSE IF PresentNonZero("total") THEN tagBackend.totals.total
        ELSE RowsOn(page)

C19_Witness ==
  /\ "totalTags" \in DOMAIN tagBackend.totals
  /\ tagBackend.totals.totalTags = 0
  /\ "total" \in DOMAIN tagBackend.totals
  /\ tagBackend.totals.total = 9
  /\ Len(tagPages) >= 1
  /\ tagPages[1].served
  /\ tagPages[1].result.totalCount = 9

TreeReturned == treeResult.kind = "return" /\ treeArgs # << >>

\* C20 (as claimed), for the nodes built from rows: a node of a row that has
\* subordinates has a children list, built the same way; a node of a row
\* without subordinates has no children field.
RECURSIVE ChildrenFieldOnlyOnParents(_, _)
ChildrenFieldOnlyOnParents(rows, nodes) ==
  /\ Len(nodes) = Len(rows)
  /\ \A i \in 1..Len(rows) :
       IF "subordinates" \in DOMAIN rows[i] /\ rows[i].subordinates # << >>
       THEN /\ "children" \in DOMAIN nodes[i]
            /\ nodes[i].children # << >>
            /\ ChildrenFieldOnlyOnParents(rows[i].subordinates, nodes[i].children[1])
       ELSE "children" \notin DOMAIN nodes[i]

RECURSIVE ChildrenFollowSubordinates(_, _)
ChildrenFollowSubordinates(rows, nodes) ==
  /\ Len(nodes) = Len(rows)
  /\ \A i \in 1..Len(rows) :
       /\ "children" \in DOMAIN nodes[i]
       /\ IF "subordinates" \in DOMAIN rows[i]
          THEN /\ nodes[i].children # << >>
               /\ ChildrenFollowSubordinates(rows[i].subordinates, nodes[i].children[1])
          ELSE nodes[i].children = << >>

RECURSIVE NodesMirrorRows(_, _)
NodesMirrorRows(rows, nodes) ==
  /\ Len(nodes) = Len(rows)
  /\ \A i \in 1..Len(rows) :
       /\ nodes[i].value = rows[i]._id
       /\ nodes[i].title = rows[i].username
       /\ nodes[i].label = rows[i].username
       /\ IF "subordinates" \in DOMAIN rows[i]
          THEN /\ nodes[i].children # << >>
               /\ NodesMirrorRows(rows[i].subordinates, nodes[i].children[1])
          ELSE nodes[i].children = << >>

\* the number of rows, and of nodes, at all depths together
RECURSIVE RowCount(_)
RowCount(rows) ==
  IF rows = << >> THEN 0
  ELSE 1 + (IF "subordinates" \in DOMAIN Head(rows) THEN RowCount(Head(rows).subordinates)
            ELSE 0)
         + RowCount(Tail(rows))
RECURSIVE NodeCount(_)
NodeCount(nodes) ==
  IF nodes = << >> THEN 0
  ELSE 1 + (IF Head(nodes).children # << >> THEN NodeCount(Head(nodes).children[1]) ELSE 0)
         + NodeCount(Tail(nodes))

\* C21: on a list of rows transformAgentsDataToTreeSelect returns, and its
\* result is the input as a tree: one node per row and per subordinate at
\* every depth, in the input order, with value the _id and title and label
\* the username; on an input that is not a list it returns [].
C21_TreeMirrorsInput ==
  treeResult # NotCalled =>
    /\ treeResult.kind = "return"
    /\ IF treeArgs = << >> THEN treeResult.value = << >>
       ELSE /\ NodesMirrorRows(treeArgs[1], treeResult.value)
            /\ NodeCount(treeResult.value) = RowCount(treeArgs[1])

C21_Witness ==
  /\ treeResult.kind = "return"
  /\ treeArgs # << >>
  /\ Len(treeArgs[1]) = 1
  /\ RowCount(treeArgs[1]) = 4
  /\ Len(treeResult.value) = 1
  /\ treeResult.value[1].value = "x"
  /\ treeResult.value[1].children # << >>
  /\ LET mids == treeResult.value[1].children[1]
     IN  /\ Len(mids) = 2
         /\ mids[1].value = "y"
         /\ mids[2].value = "x"
         /\ mids[1].children # << >>
         /\ Len(mids[1].children[1]) = 1
         /\ mids[1].children[1][1].value = "y"
         /\ mids[1].children[1][1].title = "Y"
         /\ mids[1].children[1][1].label = "Y"

\* the staff response was ok and its body has a data list
StaffResponded(c) ==
  /\ c.op = "fetchAgents"
  /\ c.pc = "done"
  /\ c.response # << >>
  /\ c.response[1].kind = "response"
  /\ c.response[1].ok
  /\ c.response[1].json # << >>
  /\ "data" \in DOMAIN c.response[1].json[1]

IsNonAssignedNode(node) ==
  /\ DOMAIN node = { "value", "title", "label" }
  /\ node.value = "non-assigned"
  /\ node.title = "Non-Assigned Leads"
  /\ node.label = "Non-Assigned Leads"

\* C22: on a successful staff response fetchAgents returns the transformed
\* tree with the non-assigned node put first exactly when the user holds
\* lead capability view_all or view_non_assigned or has role superAdmin, and
\* the transformed tree alone for any other user; the node is at no other
\* position.
C22_NonAssignedFirstIffPrivileged ==
  \A p \in Callers :
    LET c == calls[p]
    IN  StaffResponded(c) =>
          /\ c.result.kind = "return"
          /\ LET tree == c.result.value
                 rows == c.response[1].json[1].data
             IN  IF Privileged(c.args.user[1])
                 THEN /\ Len(tree) = Len(rows) + 1
                      /\ IsNonAssignedNode(tree[1])
                      /\ NodesMirrorRows(rows, SubSeq(tree, 2, Len(tree)))
                      /\ \A i \in 2..Len(tree) : ~IsNonAssignedNode(tree[i])
                 ELSE /\ NodesMirrorRows(rows, tree)
                      /\ \A i \in 1..Len(tree) : ~IsNonAssignedNode(tree[i])

C22_Witness ==
  \E p \in Callers :
    LET c == calls[p]
    IN  /\ StaffResponded(c)
        /\ HoldsCapability(c.args.user[1], "view_non_assigned")
        /\ c.args.user[1].role = "agent"
        /\ Len(c.result.value) = 2
        /\ IsNonAssignedNode(c.result.value[1])
        /\ c.result.value[2].value = "m1"

TimedOut(c) == c.result.kind = "throw" /\ c.result.error = "Request timeout after 30s"

\* the step in which an operation fails with the timeout leaves its request
\* in flight
TimeoutLeavesRequestInFlight ==
  \A p \in Callers :
    (~TimedOut(calls[p]) /\ TimedOut(calls'[p])) =>
      /\ calls[p].pending
      /\ calls'[p].pending
      /\ calls'[p].request = calls[p].request
      /\ calls'[p].request # << >>

\* the outcome of an operation that has ended does not change
OutcomeIsFinal ==
  \A p \in Callers :
    (calls[p].pc = "done" /\ calls'[p].pc = "done") => calls'[p].result = calls[p].result

\* C23: fetchCampaignsWithCounts issues one request and arms one timer with
\* it. If the timer fires while the response is awaited, the operation fails
\* with the timeout error and the request stays in flight; if the response
\* (or a transport failure) comes first, the outcome is that of the
\* response, and the timer firing later does not change it.
C23_TimeoutRace ==
  /\ [](\A p \in Callers :
          LET c == calls[p]
          IN  /\ c.op = "fetchCampaignsWithCounts" =>
                   /\ CountIn(c.log, "fetch") <= 1
                   /\ (c.timer = "none") <=> (CountIn(c.log, "fetch") = 0)
                   /\ (c.pc = "done" /\ c.response # << >>) => ~TimedOut(c)
                   /\ TimedOut(c) =>
                        /\ c.pc = "done"
                        /\ c.timer = "fired"
                        /\ c.response = << >>
                        /\ CountIn(c.log, "fetch") = 1
              /\ c.op # "fetchCampaignsWithCounts" => (c.timer = "none" /\ ~TimedOut(c)))
  /\ [][TimeoutLeavesRequestInFlight /\ OutcomeIsFinal]_vars

\* the timer fired after the response had been taken
C23_LateTimerReached ==
  \E p \in Callers :
    LET c == calls[p]
    IN  /\ c.op = "fetchCampaignsWithCounts"
        /\ c.pc = "done"
        /\ c.timer = "fired"
        /\ c.response # << >>
        /\ c.result.kind = "return"
        /\ c.result.value.data = << "camp1" >>

\* the timer fired first, and the request is still in flight
C23_Witness ==
  \E p \in Callers :
    LET c == calls[p]
    IN  /\ c.op = "fetchCampaignsWithCounts"
        /\ TimedOut(c)
        /\ c.pending

FetchOps ==
  { "fetchLeads", "fetchStatusOptions", "fetchSourceOptions", "fetchTagOptions",
    "fetchAgents", "fetchCampaignLeads", "fetchCampaignsWithCounts" }

\* the errors thrown so far in the call
Throws(log) ==
  Cardinality({ i \in 1..Len(log) :
                  log[i] \in { "throw:Network request failed", "throw:SyntaxError",
                               "throw:TypeError", "throw:Request timeout after 30s",
                               "throw:No authentication token available" } })

\* within one invocation a request, once issued, is the only one
RequestIssuedOnce ==
  \A p \in Callers :
    (calls[p].request # << >> /\ calls'[p].pc # "idle") =>
      /\ calls'[p].request = calls[p].request
      /\ CountIn(calls'[p].log, "fetch") = 1

\* C24: an invocation of a fetch operation issues at most one request; after
\* a transport failure, a response that is not ok, or a timeout, the
\* operation has ended with that failure reported once (thrown by the
\* critical fetches, the empty result for the best-effort ones), and the
\* request is not issued again.
C24_NoRetry ==
  /\ [](\A p \in Callers :
          LET c == calls[p]
          IN  c.op \in FetchOps =>
                /\ CountIn(c.log, "fetch") <= 1
                /\ (c.request # << >>) <=> (CountIn(c.log, "fetch") = 1)
                /\ Throws(c.log) <= 1
                /\ ((FailedResponse(c) /\ c.pc # "F_done") \/ TimedOut(c)) =>
                     /\ c.pc = "done"
                     /\ CountIn(c.log, "fetch") = 1
                     /\ IF c.op \in BestEffortOps THEN IsEmptyResult(c)
                        ELSE c.result.kind = "throw")
  /\ [][RequestIssuedOnce /\ OutcomeIsFinal]_vars

C24_Witness ==
  \E p \in Callers :
    LET c == calls[p]
    IN  /\ c.op = "fetchLeads"
        /\ c.pc = "done"
        /\ c.response # << >>
        /\ c.response[1].kind = "failure"
        /\ c.result = Throw("Network request failed")
        /\ CountIn(c.log, "fetch") = 1
        /\ ~c.pending

\* C26: a request body built with no extraOptions has viewAllLeads = true
\* only for a superAdmin, or for a user who holds view_all or
\* view_non_assigned and has "non-assigned" among the selected agents;
\* whatever the filters, search text and pagination, no other user gets it.
C26_ViewAllLeadsNeedsPrivilege ==
  (BuildReturned /\ BuildNoExtraOptions /\ IsTrue(BuildBody, "viewAllLeads")) =>
    \/ IsSuperAdmin(BuildUser)
    \/ /\ BuildSelectsNonAssigned
       /\ (HoldsCapability(BuildUser, "view_all")
             \/ HoldsCapability(BuildUser, "view_non_assigned"))

C26_Witness ==
  /\ BuildReturned
  /\ BuildNoExtraOptions
  /\ ~IsSuperAdmin(BuildUser)
  /\ HoldsCapability(BuildUser, "view_non_assigned")
  /\ ~HoldsCapability(BuildUser, "view_all")
  /\ BuildSelected = << "non-assigned" >>
  /\ IsTrue(BuildBody, "viewAllLeads")
  /\ BuildBody.selectedAgents = << "non-assigned" >>

\* C27 (as claimed): the token fetchLeads sends in its Cookie header is the
\* token its validateAuthToken call read and checked, whatever happens to
\* the store between the two reads.
C27_SentTokenWasValidated ==
  \A p \in Callers :
    LET c == calls[p]
    IN  (c.op = "fetchLeads" /\ c.request # << >>) =>
          /\ c.tokenValid = << TRUE >>
          /\ c.validateToken # << >>
          /\ c.request[1].headers.Cookie = << "token=", c.validateToken[1] >>

\* the payload of the token decodes to an object that has no exp
DecodesWithoutExp(token) ==
  /\ Len(token) >= 2
  /\ token[2].base64
  /\ token[2].json
  /\ token[2].value.type = "object"
  /\ "exp" \notin DOMAIN token[2].value.fields

\* C28 (as claimed): a stored token whose payload decodes but has no exp is
\* not accepted: validateAuthToken returns false and deletes it, at every
\* clock reading.
C28_NoExpRejected ==
  \A p \in Callers :
    LET c == calls[p]
    IN  (/\ c.op \in Validators
         /\ c.validateToken # << >>
         /\ DecodesWithoutExp(c.validateToken[1])
         /\ c.tokenValid # << >>) =>
          /\ c.tokenValid = << FALSE >>
          /\ CountIn(c.log, "deleteItem") = 1

\* C25 (as claimed): two fetch operations in flight on one store get, in
\* every interleaving of their steps, the outcome one of the two sequential
\* orders gives them. Run before or after the other operation, a fetchLeads
\* for a user with an id either sends its request (its validation returned
\* true and the token it checked is still there for its headers) or fails
\* with "Authentication failed"; so it does in every interleaving.
C25_LeadsOutcomeAsSequential ==
  \A p \in Callers :
    LET c == calls[p]
    IN  (c.op = "fetchLeads" /\ HasIdentity(c.args.user) /\ c.pc = "done") =>
          \/ c.request # << >>
          \/ (c.result.kind = "throw" /\ c.result.error = "Authentication failed")

\* a store that holds no token keeps holding none
EmptyStoreStaysEmpty == (store = << >>) => (store' = << >>)

\* C29: with no write to the store from outside, after a validateAuthToken
\* call that returned false the store holds no token, and it goes on holding
\* none; and a validateAuthToken call that finds no token returns false, a
\* createAuthHeaders call that finds none fails.
C29_InvalidityIsPermanent ==
  /\ [](\A p \in Callers :
          LET c == calls[p]
          IN  /\ (c.op \in Validators /\ c.tokenValid = << FALSE >>) => store = << >>
              /\ (c.op \in Validators /\ c.validateToken = << >> /\ c.tokenValid # << >>) =>
                   c.tokenValid = << FALSE >>
              /\ (/\ store = << >>
                  /\ c.op = "validateAuthToken"
                  /\ c.pc = "done"
                  /\ c.validateToken = << >>) => c.result = Return(FALSE)
              /\ (/\ store = << >>
                  /\ c.op = "createAuthHeaders"
                  /\ c.pc = "done"
                  /\ c.headersToken = << >>) =>
                   c.result = Throw("No authentication token available"))
  /\ [][EmptyStoreStaysEmpty]_vars

\* one caller's validateAuthToken returned false on a token with exp, and
\* the other's createAuthHeaders found the store empty and failed
C29_Witness ==
  LET a == calls["c1"]
      b == calls["c2"]
  IN  /\ a.op = "validateAuthToken"
      /\ a.pc = "done"
      /\ a.validateToken # << >>
      /\ HasExp(a.validateToken[1])
      /\ a.result = Return(FALSE)
      /\ b.op = "createAuthHeaders"
      /\ b.pc = "done"
      /\ b.headersToken = << >>
      /\ b.result = Throw("No authentication token available")
      /\ store = << >>

\* C30: with no token stored from outside, a fetchCampaignsWithCounts whose
\* validateAuthToken call returned false issues no request: the store is
\* empty, createAuthHeaders throws, and the operation fails with its error.
C30_NoRequestAfterFailedValidation ==
  \A p \in Callers :
    LET c == calls[p]
    IN  (c.op = "fetchCampaignsWithCounts" /\ c.tokenValid = << FALSE >>) =>
          /\ c.request = << >>
          /\ CountIn(c.log, "fetch") = 0
          /\ c.timer = "none"
          /\ c.pc \in { "V_done", "H_get", "H_check", "done" }
          /\ c.pc \in { "H_check", "done" } => c.headersToken = << >>
          /\ c.pc = "done" => c.result = Throw("No authentication token available")

C30_Witness ==
  \E p \in Callers :
    LET c == calls[p]
    IN  /\ c.op = "fetchCampaignsWithCounts"
        /\ c.pc = "done"
        /\ c.validateToken # << >>
        /\ HasExp(c.validateToken[1])
        /\ c.tokenValid = << FALSE >>
        /\ CountIn(c.log, "deleteItem") = 1
        /\ c.request = << >>
        /\ c.result = Throw("No authentication token available")

====
